---- MODULE Spec2Model ----
(***************************************************************************)
(* Model of the turn-taking decision engine of inner_thoughts_ai:          *)
(*   - Agent.select_thoughts  (models/participant.py)                      *)
(*   - Agent.act / Participant.act (models/participant.py)                 *)
(*   - decide_next_speaker    (utils/turn_taking_engine.py)                *)
(* Scores, thresholds and probabilities are real numbers in the code; the  *)
(* model keeps them as integers in hundredths (0.7 is 70, 5.0 is 500,      *)
(* the unevaluated sentinel -1.0 is -100).  Only comparisons are made on   *)
(* them, so the scaling changes no outcome.                                *)
(***************************************************************************)
EXTENDS Integers, Sequences, FiniteSets, TLC

VARIABLES
    \* ---- the conversation and its participants -------------------------
    participants,       \* Conversation.participants (registration order)
    event_history,      \* Conversation.event_history
    turn_number,        \* conversation.turn_number as Agent.act reads it:
                        \* <<n>>, or <<>> while the attribute is not set
    thought_reservoir,  \* agent index -> ThoughtReservoir.thoughts
    \* ---- one call of decide_next_speaker -------------------------------
    pc,                 \* position of the coordinator coroutine
    task,               \* participant index -> state of its act() task
    results,            \* participant index -> list returned by its act()
    chosen,             \* (agent, thought) handed to articulate_thought
    result,             \* the (participant, utterance) tuple returned
    exc,                \* exception that left decide_next_speaker, if any
    act_calls,          \* participant index -> number of act() invocations
    articulated,        \* thoughts passed to articulate_thought, in order
    \* ---- one call of Agent.select_thoughts on free inputs --------------
    sel_pc,             \* "ready" before the call, "returned"/"raised" after
    sel_in,             \* the arguments and the state the call reads
    sel_out,            \* what the call produced
    \* ---- the participants' record of speaking -------------------------
    last_spoken_turn,   \* participant index -> Participant.last_spoken_turn
    \* ---- operations on the event log of one conversation --------------
    last_op,            \* the operation that ran last on the conversation
    last_exc,           \* the exception it raised, "none" when it returned
    \* ---- one call of recalibrate_all_saliency on free inputs ----------
    rec_pc,             \* "ready" before the call, "returned"/"raised" after
    rec_in,             \* the arguments, with the items as they were
    rec_items,          \* the items, which the call updates in place
    \* ---- a ThoughtReservoir and a MemoryStore under their operations --
    reservoir,          \* ThoughtReservoir.thoughts
    memory_store,       \* MemoryStore.long_term_memory / short_term_memory
    res_last,           \* the last operation: arguments, exception, value
    \* ---- the agents' minds, the registry and the predictor -------------
    minds,              \* agent index -> its MemoryStore and ThoughtReservoir
    named,              \* whether the events carry participant_name
    next_id,            \* Participant._next_id
    constructed,        \* the participants constructed so far
    call                \* the last call: operation, arguments, outcome

convVars == <<participants, event_history, turn_number, thought_reservoir,
              last_spoken_turn>>
turnVars == <<pc, task, results, chosen, result, exc, act_calls, articulated>>
selVars  == <<sel_pc, sel_in, sel_out>>
logVars  == <<last_op, last_exc>>
salVars  == <<rec_pc, rec_in, rec_items>>
resVars  == <<reservoir, memory_store, res_last>>
mindVars == <<minds, named, next_id, constructed, call>>
vars     == <<convVars, turnVars, selVars, logVars, salVars, resVars,
              mindVars>>

(***************************************************************************)
(* Bounds of the model.                                                    *)
(***************************************************************************)
\* largest batch handed to select_thoughts in SpecSelect
MaxBatch == 2
\* largest thought reservoir of an agent in Spec
MaxThoughts == 1

(***************************************************************************)
(* Program constants (hundredths).                                         *)
(***************************************************************************)
Sentinel == -100
DefaultImThreshold == 70
DefaultSystem1Prob == 30
DefaultInterruptThreshold == 85
InitialHighestScore == -100
MissingScoreDefault == 0

\* Python's None, where the code holds a participant or nothing
None == 0

THOUGHT_SYSTEM1 == "THOUGHT_SYSTEM1"
THOUGHT_SYSTEM2 == "THOUGHT_SYSTEM2"

(***************************************************************************)
(* Thought: the fields of models/thought.py that selection and arbitration *)
(* read.  intrinsic_motivation is a dict; has_score tells whether it holds *)
(* the key 'score', score is the value under that key.                     *)
(***************************************************************************)
Thought(id, agent_id, type, turn, has_score, score) ==
    [id |-> id, agent_id |-> agent_id, type |-> type, turn_number |-> turn,
     has_score |-> has_score, score |-> score]

\* the value of a variable that holds a thought or None
NoThought == Thought(0, 0, "None", 0, FALSE, 0)

\* proactivity_config.get(key, default): the dict is a function on the keys
\* it holds
ConfigGet(config, key, default) ==
    IF key \in DOMAIN config THEN config[key] ELSE default

\* mutant: the sort without reverse=True (ascending, stable)
RECURSIVE InsertAsc(_, _)
InsertAsc(s, t) ==
    IF s = <<>> THEN <<t>>
    ELSE IF s[1].score <= t.score THEN <<s[1]>> \o InsertAsc(Tail(s), t)
    ELSE <<t>> \o s

RECURSIVE SortedByScore_NoReverse(_)
SortedByScore_NoReverse(s) ==
    IF s = <<>> THEN <<>>
    ELSE InsertAsc(SortedByScore_NoReverse(SubSeq(s, 1, Len(s) - 1)), s[Len(s)])

\* insertion of t behind every element whose score is >= t's score
RECURSIVE InsertDesc(_, _)
InsertDesc(s, t) ==
    IF s = <<>> THEN <<t>>
    ELSE IF s[1].score >= t.score THEN <<s[1]>> \o InsertDesc(Tail(s), t)
    ELSE <<t>> \o s

\* sorted(evaluated_thoughts, key=score, reverse=True): stable, so thoughts of
\* equal score keep the order they have in the batch
RECURSIVE SortedByScore(_)
SortedByScore(s) ==
    IF s = <<>> THEN <<>>
    ELSE InsertDesc(SortedByScore(SubSeq(s, 1, Len(s) - 1)), s[Len(s)])

HasScoreKey(t) == t.has_score

\* the list comprehension that keeps the thoughts the code calls evaluated
EvaluatedThoughts(thoughts) == SelectSeq(thoughts, HasScoreKey)

\* the exceptions the modelled code raises
Exceptions == {"IndexError", "AttributeError", "ExternalCallFailure",
               "NameError", "TypeError", "ValueError"}

Returned(v) == [exc |-> "none", value |-> v]
Raised(e)   == [exc |-> e, value |-> <<>>]

\* [t for t in sorted_thoughts if score >= threshold]
AtLeast(sorted, threshold) ==
    SelectSeq(sorted, LAMBDA t : t.score >= threshold)

OfType(sorted, type) == SelectSeq(sorted, LAMBDA t : t.type = type)

FirstOrNothing(s) == IF s = <<>> THEN <<>> ELSE <<s[1]>>

\* mutant: the threshold test of the open turn made strict
SelectAnyone_Strict(sorted, im_threshold, system1_prob, draw) ==
    LET high == SelectSeq(sorted, LAMBDA t : t.score > im_threshold)
    IN  IF high # <<>> THEN <<high[1]>>
        ELSE IF draw < system1_prob
             THEN FirstOrNothing(OfType(sorted, THOUGHT_SYSTEM1))
             ELSE <<>>

\* the branch taken when predicted_speaker == "anyone"
SelectAnyone(sorted, im_threshold, system1_prob, draw) ==
    LET high == AtLeast(sorted, im_threshold)
    IN  IF high # <<>> THEN <<high[1]>>
        ELSE IF draw < system1_prob
             THEN FirstOrNothing(OfType(sorted, THOUGHT_SYSTEM1))
             ELSE <<>>

\* the branch taken when predicted_speaker == self.name
SelectOwnTurn(sorted) == FirstOrNothing(sorted)

\* mutant: every thought above the interruption bar is selected
SelectInterrupt_All(sorted, interrupt_threshold) ==
    AtLeast(sorted, interrupt_threshold)

\* mutant: the interruption bar made strict
SelectInterrupt_Strict(sorted, interrupt_threshold) ==
    FirstOrNothing(SelectSeq(sorted, LAMBDA t : t.score > interrupt_threshold))

\* the branch taken for every other value of predicted_speaker
SelectInterrupt(sorted, interrupt_threshold) ==
    FirstOrNothing(AtLeast(sorted, interrupt_threshold))

(***************************************************************************)
(* Agent.select_thoughts (the second definition of the class, which is the *)
(* one Python binds).  draw is the value random.random() would give.       *)
(***************************************************************************)
SelectThoughts(name, config, thoughts, history, draw) ==
    LET im_threshold == ConfigGet(config, "im_threshold", DefaultImThreshold)
        system1_prob == ConfigGet(config, "system1_prob", DefaultSystem1Prob)
        interrupt_threshold ==
            ConfigGet(config, "interrupt_threshold", DefaultInterruptThreshold)
        evaluated == EvaluatedThoughts(thoughts)
        sorted    == SortedByScore(evaluated)
    IN  IF Len(thoughts) = 0 THEN Returned(<<>>)
        ELSE IF evaluated = <<>> THEN Returned(<<>>)
        ELSE IF history = <<>> THEN Raised("IndexError")
        ELSE LET predicted_speaker == history[Len(history)].pred_next_turn
             IN  IF predicted_speaker = "anyone"
                 THEN Returned(SelectAnyone(sorted, im_threshold,
                                            system1_prob, draw))
                 ELSE IF predicted_speaker = name
                 THEN Returned(SelectOwnTurn(sorted))
                 ELSE Returned(SelectInterrupt(sorted, interrupt_threshold))

(***************************************************************************)
(* Event: the fields of models/conversation.py that the engine reads.      *)
(***************************************************************************)
Event(participant_id, turn, pred) ==
    [participant_id |-> participant_id, turn_number |-> turn,
     pred_next_turn |-> pred]

\* proactivity_config dicts over the three recognised keys
ConfigKeys == {"im_threshold", "system1_prob", "interrupt_threshold"}

\* the dict holding the keys ks, with the values of full
Restrict(full, ks) == [k \in ks |-> full[k]]

EmptyConfig == Restrict([im_threshold |-> 0], {})

(***************************************************************************)
(* Inputs of the select_thoughts specification.                            *)
(***************************************************************************)
SelName == "Alice"

\* values of intrinsic_motivation['score'] in the batches
\* the sentinel, and around the thresholds in use (70, 85 and 200): below,
\* equal and above
SelScores == {Sentinel, 50, 70, 85, 200}

\* a thought without its id: both kinds, with and without the key 'score'
SelShapes ==
    {[type |-> ty, has_score |-> TRUE, score |-> sc] :
        ty \in {THOUGHT_SYSTEM1, THOUGHT_SYSTEM2}, sc \in SelScores}
    \cup {[type |-> ty, has_score |-> FALSE, score |-> MissingScoreDefault] :
        ty \in {THOUGHT_SYSTEM1, THOUGHT_SYSTEM2}}

\* the batch a sequence of shapes stands for: ids are the positions, which
\* keeps the ids distinct as Thought._next_thought_id does
BatchOf(shapes) ==
    [i \in 1..Len(shapes) |->
        Thought(i, 0, shapes[i].type, 0, shapes[i].has_score, shapes[i].score)]

SelBatches ==
    {BatchOf(sh) : sh \in UNION {[1..n -> SelShapes] : n \in 0..MaxBatch}}

\* {} (every default), and dicts that set thresholds on the 1-5 scale of the
\* evaluation and a probability of 0 or 1
SelConfigs ==
    {Restrict([im_threshold |-> 200, system1_prob |-> s1,
               interrupt_threshold |-> 200], ks) :
        s1 \in {0, 100}, ks \in SUBSET ConfigKeys}

\* pred_next_turn of an event: "" is the constructor's default
SelPredictions == {"", "anyone", "Alice", "Bob"}

SelHistories ==
    {<<>>} \cup {<<Event("1", 0, p)>> : p \in SelPredictions}
           \cup {<<Event("0", 0, "anyone"), Event("1", 1, "Bob")>>,
                 <<Event("0", 0, "Alice"), Event("1", 1, "anyone")>>}

\* values random.random() may return (hundredths)
Draws == {0, 30, 99}

NoOutput == [exc |-> "none", value |-> <<>>, draw |-> 0]

SelIdle ==
    /\ sel_pc = "off"
    /\ sel_in = [name |-> SelName, config |-> EmptyConfig,
                 thoughts |-> <<>>, history |-> <<>>]
    /\ sel_out = NoOutput

SelInit ==
    /\ sel_pc = "ready"
    /\ sel_in \in [name : {SelName}, config : SelConfigs,
                   thoughts : SelBatches, history : SelHistories]
    /\ sel_out = NoOutput

\* one call of agent.select_thoughts(thoughts, conversation)
Select ==
    /\ sel_pc = "ready"
    /\ \E draw \in Draws :
         LET r == SelectThoughts(sel_in.name, sel_in.config, sel_in.thoughts,
                                 sel_in.history, draw)
         IN  /\ sel_out' = [exc |-> r.exc, value |-> r.value, draw |-> draw]
             /\ sel_pc' = IF r.exc = "none" THEN "returned" ELSE "raised"
    /\ UNCHANGED <<sel_in, convVars, turnVars, logVars, salVars, resVars,
                   mindVars>>

(***************************************************************************)
(* The conversation of the turn specification.                             *)
(***************************************************************************)
HUMAN == "HUMAN"
AGENT == "AGENT"

Participant(id, name, type, config) ==
    [id |-> id, name |-> name, type |-> type, proactivity_config |-> config]

\* Alice and Carol run on the default thresholds, Bob sets his own; Hank is
\* a Human, whose act() is Participant.act
Roster ==
    << Participant("0", "Alice", AGENT, EmptyConfig),
       Participant("1", "Hank",  HUMAN, EmptyConfig),
       Participant("2", "Bob",   AGENT,
                   [im_threshold |-> 300, interrupt_threshold |-> 300]),
       Participant("3", "Carol", AGENT, EmptyConfig) >>

Indices(ps) == 1..Len(ps)
AgentIndices(ps) == {i \in Indices(ps) : ps[i].type = AGENT}

\* thoughts an agent may hold when decide_next_speaker is called, all
\* formed at turn 1: a system-1 thought left unevaluated, and system-2
\* thoughts rated 2 and 4
TurnShapes ==
    { [type |-> THOUGHT_SYSTEM1, turn_number |-> 1, score |-> Sentinel],
      [type |-> THOUGHT_SYSTEM2, turn_number |-> 1, score |-> 200],
      [type |-> THOUGHT_SYSTEM2, turn_number |-> 1, score |-> 400] }

\* the reservoir of participant i holding the given shapes; ids are distinct
\* over the whole conversation, as Thought._next_thought_id makes them
ReservoirOf(i, shapes) ==
    [k \in 1..Len(shapes) |->
        Thought(i * 10 + k, i, shapes[k].type, shapes[k].turn_number,
                TRUE, shapes[k].score)]

ShapeLists == UNION {[1..n -> TurnShapes] : n \in 0..MaxThoughts}

\* the last event predicts anyone, an agent, or the human
TurnPredictions == {"anyone", "Alice", "Bob", "Hank"}

TurnHistories == {<<>>} \cup {<<Event("1", 0, p)>> : p \in TurnPredictions}

\* an utterance: the text and the thought it articulates (0 for none)
Utterance(of, text) == [of |-> of, text |-> text]

NoChoice == [agent |-> None, thought |-> NoThought]
NoResult == [speaker |-> None, utterance |-> Utterance(0, "<no result>")]

\* Participant.__init__: nobody has spoken
NeverSpoken == -1

\* a conversation as Conversation.__init__ and add_participant leave it
ConvIdle ==
    /\ participants = Roster
    /\ event_history = <<>>
    /\ turn_number = <<>>
    /\ thought_reservoir = [i \in AgentIndices(Roster) |-> <<>>]
    /\ last_spoken_turn = [i \in Indices(Roster) |-> NeverSpoken]

\* no call of decide_next_speaker is under way
TurnOff ==
    /\ pc = "off"
    /\ task = [i \in Indices(Roster) |-> "none"]
    /\ results = [i \in Indices(Roster) |-> <<>>]
    /\ chosen = NoChoice
    /\ result = NoResult
    /\ exc = "none"
    /\ act_calls = [i \in Indices(Roster) |-> 0]
    /\ articulated = <<>>

TurnIdle ==
    /\ participants = Roster
    /\ event_history = <<>>
    /\ turn_number = <<>>
    /\ thought_reservoir = [i \in AgentIndices(Roster) |-> <<>>]
    /\ last_spoken_turn = [i \in Indices(Roster) |-> NeverSpoken]
    /\ pc = "off"
    /\ task = [i \in Indices(Roster) |-> "none"]
    /\ results = [i \in Indices(Roster) |-> <<>>]
    /\ chosen = NoChoice
    /\ result = NoResult
    /\ exc = "none"
    /\ act_calls = [i \in Indices(Roster) |-> 0]
    /\ articulated = <<>>

TurnInit ==
    /\ participants = Roster
    \* the conversation is at the turn of the thoughts, or one turn later,
    \* or turn_number is still unset
    /\ \/ turn_number = <<1>> /\ event_history \in TurnHistories
       \/ turn_number = <<2>> /\ event_history = <<Event("1", 1, "anyone")>>
       \/ turn_number = <<>> /\ event_history = <<Event("1", 0, "anyone")>>
    /\ \E sh \in [AgentIndices(Roster) -> ShapeLists] :
         thought_reservoir = [i \in AgentIndices(Roster) |-> ReservoirOf(i, sh[i])]
    \* send_message is the only writer of last_spoken_turn
    /\ last_spoken_turn = [i \in Indices(Roster) |-> NeverSpoken]
    /\ pc = "idle"
    /\ task = [i \in Indices(Roster) |-> "none"]
    /\ results = [i \in Indices(Roster) |-> <<>>]
    /\ chosen = NoChoice
    /\ result = NoResult
    /\ exc = "none"
    /\ act_calls = [i \in Indices(Roster) |-> 0]
    /\ articulated = <<>>

(***************************************************************************)
(* Participant.act and Agent.act.                                          *)
(***************************************************************************)
\* Participant.act: the default implementation
ParticipantAct == Returned(<<>>)

\* the batch Agent.act hands to select_thoughts
NewThoughts(thoughts, turn) ==
    SelectSeq(thoughts, LAMBDA t : t.turn_number = turn)

\* Agent.act.  The comprehension of line 114 reads conversation.turn_number
\* once for each thought of the reservoir: Conversation.__init__ does not set
\* the attribute, and while nothing else has set it the read raises
AgentAct(p, thoughts, history, turn, draw) ==
    IF thoughts = <<>> THEN Returned(<<>>)
    ELSE IF turn = <<>> THEN Raised("AttributeError")
    ELSE LET new_thoughts == NewThoughts(thoughts, turn[1])
         IN  IF new_thoughts = <<>> THEN Returned(<<>>)
             ELSE SelectThoughts(p.name, p.proactivity_config, new_thoughts,
                                 history, draw)

(***************************************************************************)
(* decide_next_speaker.                                                    *)
(***************************************************************************)
\* agents = [p for p in conversation.participants if hasattr(p, 'act')]:
\* Participant defines act, so every participant has it
ActingParticipants(ps) == {i \in Indices(ps) : TRUE}

\* lines 75-85: the coroutines are created and gather() schedules one task
\* for each of them
Call ==
    /\ pc = "idle"
    /\ pc' = "gathering"
    /\ task' = [i \in Indices(participants) |->
                  IF i \in ActingParticipants(participants)
                  THEN "pending" ELSE "none"]
    /\ UNCHANGED <<results, chosen, result, exc, act_calls, articulated,
                   convVars, selVars,
                   logVars, salVars, resVars, mindVars>>

\* the task of participant i runs its act() coroutine.  act() holds no
\* suspension point (select_thoughts awaits nothing that yields), so the
\* task runs in one step and ends "done" or with the exception it raised
Act(i) ==
    /\ pc = "gathering"
    /\ task[i] = "pending"
    /\ \E draw \in Draws :
         LET p == participants[i]
             r == IF p.type = AGENT
                  THEN AgentAct(p, thought_reservoir[i], event_history,
                                turn_number, draw)
                  ELSE ParticipantAct
         IN  /\ task' = [task EXCEPT ![i] =
                            IF r.exc = "none" THEN "done" ELSE r.exc]
             /\ results' = [results EXCEPT ![i] = r.value]
    /\ act_calls' = [act_calls EXCEPT ![i] = @ + 1]
    /\ UNCHANGED <<pc, chosen, result, exc, articulated, convVars, selVars,
                   logVars, salVars, resVars, mindVars>>

\* await asyncio.gather(*act_coroutines) without return_exceptions: the
\* first exception of a task is raised in decide_next_speaker, which has no
\* handler
GatherRaises ==
    /\ pc = "gathering"
    /\ \E i \in Indices(participants) :
         /\ task[i] \in Exceptions
         /\ exc' = task[i]
    /\ pc' = "raised"
    /\ UNCHANGED <<task, results, chosen, result, act_calls, articulated,
                   convVars, selVars,
                   logVars, salVars, resVars, mindVars>>

\* mutant: the join returns as soon as one task is done
GatherDone_First(ps, tk) ==
    \E i \in {j \in 1..Len(ps) : TRUE} : tk[i] = "done"

\* gather() returns once every task is done
GatherDone(ps, tk) ==
    \A i \in ActingParticipants(ps) : tk[i] = "done"

\* mutant: the test "if thoughts" of line 89 left out
RECURSIVE AllAgentThoughts_NoFilter(_, _, _)
AllAgentThoughts_NoFilter(ps, res, i) ==
    IF i > Len(ps) THEN <<>>
    ELSE <<i>> \o AllAgentThoughts_NoFilter(ps, res, i + 1)

\* lines 88-90: the agents with a non-empty list, in the order of agents
RECURSIVE AllAgentThoughts(_, _, _)
AllAgentThoughts(ps, res, i) ==
    IF i > Len(ps) THEN <<>>
    ELSE (IF res[i] # <<>> THEN <<i>> ELSE <<>>)
         \o AllAgentThoughts(ps, res, i + 1)

\* thought.intrinsic_motivation.get('score', 0)
ScoreOf(t) == IF t.has_score THEN t.score ELSE MissingScoreDefault

\* mutant: >= in place of >, so the last of equal scores wins
Beats_OrEqual(score, highest_score) == score >= highest_score

\* the test of line 104
Beats(score, highest_score) == score > highest_score

\* lines 101-107: one pass over the candidates, in order
RECURSIVE Scan(_, _, _)
Scan(cands, k, best) ==
    IF k > Len(cands) THEN best
    ELSE IF Beats(ScoreOf(cands[k].thought), best.highest_score)
         THEN Scan(cands, k + 1,
                   [agent |-> cands[k].agent, thought |-> cands[k].thought,
                    highest_score |-> ScoreOf(cands[k].thought)])
         ELSE Scan(cands, k + 1, best)

\* the (agent, thought) pairs in the order the nested loops visit them
RECURSIVE Candidates(_, _)
Candidates(keys, res) ==
    IF keys = <<>> THEN <<>>
    ELSE [k \in 1..Len(res[keys[1]]) |->
             [agent |-> keys[1], thought |-> res[keys[1]][k]]]
         \o Candidates(Tail(keys), res)

FindBest(keys, res) ==
    Scan(Candidates(keys, res), 1,
         [agent |-> None, thought |-> NoThought,
          highest_score |-> InitialHighestScore])

\* random.choice(list(all_agent_thoughts.keys())): any of the keys
FallbackAgents(keys) == {keys[k] : k \in 1..Len(keys)}

\* mutant: the random thought is drawn from the lists of all agents
FallbackThoughts_AnyAgent(a, keys, res) ==
    UNION {{res[keys[k]][n] : n \in 1..Len(res[keys[k]])} : k \in 1..Len(keys)}

\* random.choice(all_agent_thoughts[random_agent]): any thought of that
\* agent's list; on an empty list random.choice raises IndexError
FallbackThoughts(a, keys, res) == {res[a][n] : n \in 1..Len(res[a])}

\* lines 87-117, up to the await of articulate_thought
Arbitrate ==
    /\ pc = "gathering"
    /\ GatherDone(participants, task)
    /\ LET keys == AllAgentThoughts(participants, results, 1)
           best == FindBest(keys, results)
       IN  IF keys = <<>>
           THEN /\ pc' = "done"
                /\ result' = [speaker |-> None, utterance |-> Utterance(0, "")]
                /\ UNCHANGED <<chosen, articulated, exc, mindVars>>
           ELSE IF best.agent # None /\ best.thought # NoThought
           THEN /\ pc' = "articulating"
                /\ chosen' = [agent |-> best.agent, thought |-> best.thought]
                /\ articulated' = Append(articulated, best.thought.id)
                /\ UNCHANGED <<result, exc, mindVars>>
           ELSE \E a \in FallbackAgents(keys) :
                  IF FallbackThoughts(a, keys, results) = {}
                  THEN /\ pc' = "raised"
                       /\ exc' = "IndexError"
                       /\ UNCHANGED <<chosen, result, articulated, mindVars>>
                  ELSE \E t \in FallbackThoughts(a, keys, results) :
                         /\ pc' = "articulating"
                         /\ chosen' = [agent |-> a, thought |-> t]
                         /\ articulated' = Append(articulated, t.id)
                         /\ UNCHANGED <<result, exc, mindVars>>
    /\ UNCHANGED <<task, results, act_calls, convVars, selVars,
                   logVars, salVars, resVars, mindVars>>

\* articulate_thought returns the completion's text, or its fallback
\* sentence when the response does not parse
ArticulateReturns ==
    /\ pc = "articulating"
    /\ \E text \in {"articulation", "I'm not sure what to say about that."} :
         result' = [speaker |-> chosen.agent,
                    utterance |-> Utterance(chosen.thought.id, text)]
    /\ pc' = "done"
    /\ UNCHANGED <<task, results, chosen, exc, act_calls, articulated,
                   convVars, selVars,
                   logVars, salVars, resVars, mindVars>>

\* the completion service fails: get_completion is awaited outside the try
ArticulateRaises ==
    /\ pc = "articulating"
    /\ pc' = "raised"
    /\ exc' = "ExternalCallFailure"
    /\ UNCHANGED <<task, results, chosen, result, act_calls, articulated,
                   convVars, selVars,
                   logVars, salVars, resVars, mindVars>>

(***************************************************************************)
(* Conversation.record_event and Participant.send_message.                 *)
(***************************************************************************)
\* mutant: the event is inserted at the head of the log
RecordedHistory_AtHead(history, event) == <<event>> \o history

\* Conversation.record_event: self.event_history.append(event)
RecordedHistory(history, event) == Append(history, event)

\* models/participant.py imports Event under TYPE_CHECKING only, so the name
\* is not bound when send_message runs
EventIsBound == FALSE

\* the parameters of Event.__init__, and those without a default
EventParams ==
    {"participant_id", "type", "content", "embedding", "interpretation",
     "interpretation_embedding", "turn_number", "thought_id", "pred_next_turn"}
EventRequired ==
    {"participant_id", "type", "content", "embedding", "interpretation",
     "interpretation_embedding", "turn_number"}

\* a call Event(**keywords) raises TypeError unless every keyword is a
\* parameter and every required parameter is given
EventCallFails(keywords) ==
    ~(keywords \subseteq EventParams /\ EventRequired \subseteq keywords)

\* the keywords send_message passes to Event
SendMessageKeywords ==
    {"participant_id", "type", "content", "turn_number", "participant_name"}

\* Participant.send_message of participant i.  The argument of record_event
\* is evaluated first: the name Event, then conversation.turn_number among
\* the keyword values, then the call of Event; record_event and the
\* assignment of last_spoken_turn come after
SendMessage(i, ps, history, turn, last) ==
    IF ~EventIsBound
    THEN [exc |-> "NameError", event_history |-> history,
          last_spoken_turn |-> last]
    ELSE IF turn = <<>>
    THEN [exc |-> "AttributeError", event_history |-> history,
          last_spoken_turn |-> last]
    ELSE IF EventCallFails(SendMessageKeywords)
    THEN [exc |-> "TypeError", event_history |-> history,
          last_spoken_turn |-> last]
    ELSE [exc |-> "none",
          event_history |->
              RecordedHistory(history, Event(ps[i].id, turn[1], "")),
          last_spoken_turn |-> [last EXCEPT ![i] = turn[1]]]

\* the caller of decide_next_speaker: when a speaker is returned, it sends
\* the utterance with next_speaker.send_message(utterance, conversation)
SendUtterance ==
    /\ pc = "done"
    /\ result.speaker # None
    /\ LET r == SendMessage(result.speaker, participants, event_history,
                            turn_number, last_spoken_turn)
       IN  /\ event_history' = r.event_history
           /\ last_spoken_turn' = r.last_spoken_turn
           /\ exc' = r.exc
           /\ pc' = IF r.exc = "none" THEN "recorded" ELSE "send_raised"
    /\ UNCHANGED <<participants, turn_number, thought_reservoir, task, results,
                   chosen, result, act_calls, articulated, selVars,
                   logVars, salVars, resVars, mindVars>>

(***************************************************************************)
(* The event log of one conversation under the operations that reach it:   *)
(* record_event, send_message, and the think and act tasks of the agents.  *)
(***************************************************************************)
\* longest event log of the log specification
MaxEvents == 2

\* the events a caller hands to record_event
LogEvents ==
    {Event(pid, t, p) : pid \in {"0", "1"}, t \in {0, 1}, p \in {"", "anyone"}}

\* Agent.think, by the exception that leaves it ("none" when it returns).
\* It returns at once on an empty log and on the agent's own event.  After
\* that every path raises AttributeError before anything is assigned:
\* Event has no compute_embedding_async (line 140); compute_saliency reads
\* .embedding of the event's interpretation, a str, for the first item that
\* is not skipped (saliency.py line 37); and the content of the new Memory
\* reads last_event.participant_name, which Event does not set (line 159)
Think(p, history) ==
    IF history = <<>> THEN "none"
    ELSE IF history[Len(history)].participant_id = p.id THEN "none"
    ELSE "AttributeError"

LogIdle ==
    /\ last_op = "none"
    /\ last_exc = "none"

LogInit ==
    /\ participants = Roster
    /\ event_history = <<>>
    /\ turn_number \in {<<>>, <<1>>}
    /\ \E sh \in ShapeLists :
         thought_reservoir =
            [i \in AgentIndices(Roster) |->
                IF i = 1 THEN ReservoirOf(i, sh) ELSE <<>>]
    /\ last_spoken_turn = [i \in Indices(Roster) |-> NeverSpoken]
    /\ last_op = "none"
    /\ last_exc = "none"

\* conversation.record_event(event)
RecordEvent ==
    /\ Len(event_history) < MaxEvents
    /\ \E event \in LogEvents :
         event_history' = RecordedHistory(event_history, event)
    /\ last_op' = "record_event"
    /\ last_exc' = "none"
    /\ UNCHANGED <<participants, turn_number, thought_reservoir,
                   last_spoken_turn, turnVars, selVars, salVars, resVars,
                   mindVars>>

\* participant.send_message(message, conversation)
LogSend(i) ==
    /\ LET r == SendMessage(i, participants, event_history, turn_number,
                            last_spoken_turn)
       IN  /\ event_history' = r.event_history
           /\ last_spoken_turn' = r.last_spoken_turn
           /\ last_exc' = r.exc
    /\ last_op' = "send_message"
    /\ UNCHANGED <<participants, turn_number, thought_reservoir,
                   turnVars, selVars, salVars, resVars, mindVars>>

\* the think task of agent i
LogThink(i) ==
    /\ participants[i].type = AGENT
    /\ last_exc' = Think(participants[i], event_history)
    /\ last_op' = "think"
    /\ UNCHANGED <<convVars, turnVars, selVars, salVars, resVars, mindVars>>

\* the act task of participant i, select_thoughts included
LogAct(i) ==
    /\ \E draw \in Draws :
         LET p == participants[i]
             r == IF p.type = AGENT
                  THEN AgentAct(p, thought_reservoir[i], event_history,
                                turn_number, draw)
                  ELSE ParticipantAct
         IN  last_exc' = r.exc
    /\ last_op' = "act"
    /\ UNCHANGED <<convVars, turnVars, selVars, salVars, resVars, mindVars>>

(***************************************************************************)
(* utils/saliency.py.  Embeddings are vectors of two integers whose norm   *)
(* is a positive integer, and similarities, weights and saliencies are in  *)
(* hundredths; the inputs are chosen so that every quotient below is exact.*)
(***************************************************************************)
\* largest batch handed to recalibrate_all_saliency
MaxItems == 2

Abs(x) == IF x < 0 THEN -x ELSE x
Max(x, y) == IF y > x THEN y ELSE x

\* np.dot
Dot(u, v) == u[1] * v[1] + u[2] * v[2]

\* np.linalg.norm
Norm(v) == CHOOSE n \in 0..(Abs(v[1]) + Abs(v[2])) : n * n = Dot(v, v)

\* a float: a number in hundredths, or NaN
Num(x) == [is_nan |-> FALSE, value |-> x]
NaN == [is_nan |-> TRUE, value |-> 0]

\* compute_similarity: the cosine of the two embeddings.  There is no test
\* of the norms: when one is zero the dot product is zero too, numpy
\* divides 0.0 by 0.0 with a warning and float() returns NaN
ComputeSimilarity(embedding1, embedding2) ==
    IF Norm(embedding1) * Norm(embedding2) = 0 THEN NaN
    ELSE Num((Dot(embedding1, embedding2) * 100)
                \div (Norm(embedding1) * Norm(embedding2)))

\* weight * x for a float x
Scaled(weight, x) ==
    IF x.is_nan THEN NaN ELSE Num((weight * x.value) \div 100)

\* max(x, y) of two floats: y when y > x, else x; a comparison with NaN is
\* false
FloatMax(x, y) ==
    IF ~x.is_nan /\ ~y.is_nan /\ y.value > x.value THEN y ELSE x

\* an item: the attributes of a MentalObject that the saliency functions
\* read and write; has_weight is hasattr(item, 'weight'); saliency is a
\* float, NaN when saliency_is_nan
Item(id, embedding, has_weight, weight, last_accessed_turn, saliency) ==
    [id |-> id, embedding |-> embedding, has_weight |-> has_weight,
     weight |-> weight, last_accessed_turn |-> last_accessed_turn,
     saliency_is_nan |-> FALSE, saliency |-> saliency]

\* the objects passed as utterance.  "Event" is a conversation Event: its
\* interpretation is a str and its interpretation_embedding a vector.
\* "Interpreted" has an interpretation that is an object with an embedding.
\* "Plain" has no attribute interpretation.
UtteranceObject(kind, embedding, interpretation_embedding, turn) ==
    [kind |-> kind, embedding |-> embedding,
     interpretation_embedding |-> interpretation_embedding,
     turn_number |-> turn]

\* utterance.interpretation.embedding if hasattr(utterance, 'interpretation')
\* else utterance.embedding
InterpretationEmbedding(utterance) ==
    IF utterance.kind = "Plain" THEN Returned(utterance.embedding)
    ELSE IF utterance.kind = "Event" THEN Raised("AttributeError")
    ELSE Returned(utterance.interpretation_embedding)

\* decay_factor ** turns_elapsed
RECURSIVE Pow(_, _)
Pow(decay_factor, n) ==
    IF n = 0 THEN 100 ELSE (decay_factor * Pow(decay_factor, n - 1)) \div 100

\* compute_saliency
ComputeSaliency(item, utterance, decay_factor, b, c) ==
    LET interpretation == InterpretationEmbedding(utterance)
    IN  IF interpretation.exc # "none" THEN Raised(interpretation.exc)
        ELSE
        LET similarity_interpretation ==
                ComputeSimilarity(item.embedding, interpretation.value)
            similarity_text ==
                ComputeSimilarity(item.embedding, utterance.embedding)
            turns_elapsed ==
                Max(0, utterance.turn_number - item.last_accessed_turn)
            decay == IF decay_factor # 100
                     THEN Pow(decay_factor, turns_elapsed) ELSE 100
            item_weight == IF item.has_weight THEN item.weight ELSE 100
            strongest == FloatMax(Scaled(b, similarity_interpretation),
                                  Scaled(c, similarity_text))
        IN  Returned(Scaled(decay, Scaled(item_weight, strongest)))

\* mutant: the test of the skip turned round
Skipped_Reversed(utterance, item) ==
    utterance.turn_number > item.last_accessed_turn

\* the test of line 73
Skipped(utterance, item) ==
    utterance.turn_number < item.last_accessed_turn

\* the loop of recalibrate_all_saliency from item k on: the items are
\* updated in place, so those assigned before an exception keep their new
\* saliency
RECURSIVE RecalibrateFrom(_, _, _, _, _, _)
RecalibrateFrom(items, k, utterance, decay_factor, b, c) ==
    IF k > Len(items) THEN [exc |-> "none", items |-> items]
    ELSE IF Skipped(utterance, items[k])
    THEN RecalibrateFrom(items, k + 1, utterance, decay_factor, b, c)
    ELSE LET r == ComputeSaliency(items[k], utterance, decay_factor, b, c)
         IN  IF r.exc # "none" THEN [exc |-> r.exc, items |-> items]
             ELSE RecalibrateFrom(
                      [items EXCEPT ![k].saliency = r.value.value,
                                    ![k].saliency_is_nan = r.value.is_nan],
                      k + 1, utterance, decay_factor, b, c)

RecalibrateAllSaliency(items, utterance, decay_factor, b, c) ==
    RecalibrateFrom(items, 1, utterance, decay_factor, b, c)

\* items before the call: two embeddings, accessed last at turn 0 or 2,
\* weight 1 or 2 or none, and a saliency no computation yields; one item
\* has the zero vector for embedding
SalShapes ==
    {[embedding |-> e, has_weight |-> TRUE, weight |-> w,
      last_accessed_turn |-> la] :
        e \in {<<1, 0>>, <<3, 4>>}, w \in {100, 200}, la \in {0, 2}}
    \cup {[embedding |-> <<3, 4>>, has_weight |-> FALSE, weight |-> 0,
           last_accessed_turn |-> 0],
          [embedding |-> <<0, 0>>, has_weight |-> TRUE, weight |-> 100,
           last_accessed_turn |-> 0]}

ItemsOf(shapes) ==
    [i \in 1..Len(shapes) |->
        Item(i, shapes[i].embedding, shapes[i].has_weight, shapes[i].weight,
             shapes[i].last_accessed_turn, 7)]

SalBatches ==
    {ItemsOf(sh) : sh \in UNION {[1..n -> SalShapes] : n \in 0..MaxItems}}

\* utterances of the three kinds at turns 0, 1 and 2, and utterances whose
\* embedding or interpretation embedding is the zero vector
SalUtterances ==
    {UtteranceObject(kind, <<1, 0>>, <<0, 1>>, t) :
        kind \in {"Event", "Interpreted", "Plain"}, t \in {0, 1, 2}}
    \cup {UtteranceObject("Plain", <<0, 0>>, <<0, 0>>, 1),
          UtteranceObject("Interpreted", <<0, 0>>, <<3, 4>>, 1),
          UtteranceObject("Interpreted", <<3, 4>>, <<0, 0>>, 1)}

\* decay_factor, and the pairs (b, c)
SalDecayFactors == {100, 50}
SalWeights == {<<100, 100>>, <<200, 100>>, <<100, 200>>}

SalIdle ==
    /\ rec_pc = "off"
    /\ rec_in = [items |-> <<>>,
                 utterance |-> UtteranceObject("Plain", <<1, 0>>, <<1, 0>>, 0),
                 decay_factor |-> 100, b |-> 100, c |-> 100]
    /\ rec_items = <<>>

SalInit ==
    /\ rec_pc = "ready"
    /\ \E items \in SalBatches, u \in SalUtterances,
          df \in SalDecayFactors, w \in SalWeights :
         /\ rec_in = [items |-> items, utterance |-> u, decay_factor |-> df,
                      b |-> w[1], c |-> w[2]]
         /\ rec_items = items

\* one call of recalibrate_all_saliency(items, utterance, decay_factor, b, c)
RecalibrateCall ==
    /\ rec_pc = "ready"
    /\ LET r == RecalibrateAllSaliency(rec_items, rec_in.utterance,
                                       rec_in.decay_factor, rec_in.b, rec_in.c)
       IN  /\ rec_items' = r.items
           /\ rec_pc' = IF r.exc = "none" THEN "returned" ELSE "raised"
    /\ UNCHANGED <<rec_in, convVars, turnVars, selVars, logVars, resVars,
                   mindVars>>

(***************************************************************************)
(* ThoughtReservoir (models/thought.py) and MemoryStore (models/memory.py).*)
(* An object is a record whose field obj is its identity; neither class    *)
(* defines __eq__, so list.remove compares by identity.                    *)
(***************************************************************************)
\* most objects held by the reservoir and the memory store together
MaxReservoir == 3

\* the default of the parameter threshold of retrieve_top_k
DefaultSaliencyThreshold == 30

MEMORY_LONG_TERM == "MEMORY_LONG_TERM"
MEMORY_SHORT_TERM == "MEMORY_SHORT_TERM"

\* a Thought as the reservoir sees it.  saliency is a float: a number in
\* hundredths, or NaN when saliency_is_nan (compute_similarity returns NaN
\* for an embedding of norm zero, and recalibrate_all_saliency stores it)
ThoughtObject(obj, id, type, saliency_is_nan, saliency) ==
    [obj |-> obj, id |-> id, type |-> type,
     saliency_is_nan |-> saliency_is_nan, saliency |-> saliency,
     last_accessed_turn |-> 0, retrieval_count |-> 0]

\* the thoughts of the reservoir specification: two that tie on saliency,
\* one that sits on the default threshold, and one whose saliency is NaN
ThoughtPool ==
    { ThoughtObject(1, "0", THOUGHT_SYSTEM2, FALSE, 50),
      ThoughtObject(2, "1", THOUGHT_SYSTEM1, FALSE, 50),
      ThoughtObject(3, "2", THOUGHT_SYSTEM2, FALSE, 30),
      ThoughtObject(4, "3", THOUGHT_SYSTEM2, TRUE, 0) }

\* a Memory: the class sets no attribute, has_type tells whether the caller
\* has given the object a type
MemoryObject(obj, has_type, type) ==
    [obj |-> obj, has_type |-> has_type, type |-> type]

MemoryPool ==
    { MemoryObject(1, FALSE, ""),
      MemoryObject(2, TRUE, "long_term"),
      MemoryObject(3, TRUE, MEMORY_SHORT_TERM) }

\* list.append(x)
ListAppend(list, x) == Append(list, x)

Occurs(list, x) == \E i \in 1..Len(list) : list[i] = x

FirstIndex(list, x) ==
    CHOOSE i \in 1..Len(list) :
        list[i] = x /\ \A j \in 1..(i - 1) : list[j] # x

\* list.remove(x): the first occurrence is removed; ValueError when there
\* is none
ListRemove(list, x) ==
    IF Occurs(list, x)
    THEN [exc |-> "none",
          list |-> SubSeq(list, 1, FirstIndex(list, x) - 1)
                   \o SubSeq(list, FirstIndex(list, x) + 1, Len(list))]
    ELSE [exc |-> "ValueError", list |-> list]

\* ThoughtReservoir.add
ReservoirAdd(thoughts, thought) == ListAppend(thoughts, thought)

\* ThoughtReservoir.remove
ReservoirRemove(thoughts, thought) == ListRemove(thoughts, thought)

\* lines 54-59: the thoughts of the asked type for the two thought types,
\* every thought for any other value
OfThoughtType(thoughts, thought_type) ==
    IF thought_type = THOUGHT_SYSTEM2
    THEN SelectSeq(thoughts, LAMBDA t : t.type = thought_type)
    ELSE IF thought_type = THOUGHT_SYSTEM1
    THEN SelectSeq(thoughts, LAMBDA t : t.type = thought_type)
    ELSE thoughts

\* x.saliency < y.saliency on floats: False when either is NaN
SaliencyLess(x, y) ==
    ~x.saliency_is_nan /\ ~y.saliency_is_nan /\ x.saliency < y.saliency

\* x.saliency >= threshold on floats: False when the saliency is NaN
SaliencyAtLeast(x, threshold) ==
    ~x.saliency_is_nan /\ x.saliency >= threshold

Reverse(s) == [i \in 1..Len(s) |-> s[Len(s) + 1 - i]]

\* list.sort of CPython on a list shorter than 64, which is what sorted()
\* runs: the leading run is found (count_run), reversed if it descends, and
\* the rest is inserted by binary search (binarysort); the only comparison
\* is <.  RunEnd gives the length of the run that starts the list
RECURSIVE RunEnd(_, _, _)
RunEnd(s, i, descending) ==
    IF i > Len(s) THEN i - 1
    ELSE IF descending = SaliencyLess(s[i], s[i - 1])
         THEN RunEnd(s, i + 1, descending)
         ELSE i - 1

CountRun(s) ==
    IF Len(s) < 2 THEN [n |-> Len(s), descending |-> FALSE]
    ELSE [n |-> RunEnd(s, 3, SaliencyLess(s[2], s[1])),
          descending |-> SaliencyLess(s[2], s[1])]

\* the place of pivot among the sorted s[l+1..r]
RECURSIVE Bisect(_, _, _, _)
Bisect(s, pivot, l, r) ==
    IF l >= r THEN l
    ELSE LET m == l + ((r - l) \div 2)
         IN  IF SaliencyLess(pivot, s[m + 1])
             THEN Bisect(s, pivot, l, m)
             ELSE Bisect(s, pivot, m + 1, r)

\* binarysort: the first start elements are sorted, the others are inserted
\* one after the other
RECURSIVE BinarySort(_, _)
BinarySort(s, start) ==
    IF start >= Len(s) THEN s
    ELSE LET pivot == s[start + 1]
             l == Bisect(s, pivot, 0, start)
         IN  BinarySort(SubSeq(s, 1, l) \o <<pivot>> \o SubSeq(s, l + 1, start)
                            \o SubSeq(s, start + 2, Len(s)),
                        start + 1)

ListSort(s) ==
    LET run == CountRun(s)
    IN  BinarySort(IF run.descending
                   THEN Reverse(SubSeq(s, 1, run.n))
                            \o SubSeq(s, run.n + 1, Len(s))
                   ELSE s,
                   run.n)

\* sorted(thoughts, key=saliency, reverse=True): the list is reversed,
\* sorted and reversed again, which keeps equal keys in their order.  On
\* saliencies that are all numbers this is the stable descending sort
SortedBySaliency(s) == Reverse(ListSort(Reverse(s)))

\* the slice list[:k]: the first k elements, and for a negative k all but
\* the last -k
SliceTo(list, k) ==
    IF k >= 0
    THEN SubSeq(list, 1, IF k < Len(list) THEN k ELSE Len(list))
    ELSE SubSeq(list, 1, IF Len(list) + k > 0 THEN Len(list) + k ELSE 0)

\* ThoughtReservoir.retrieve_top_k: the value returned
RetrieveTopK(thoughts, k, threshold, thought_type) ==
    SliceTo(SelectSeq(SortedBySaliency(OfThoughtType(thoughts, thought_type)),
                      LAMBDA t : SaliencyAtLeast(t, threshold)),
            k)

\* mutant: the reservoir is sorted in place
ThoughtsAfterRetrieve_SortInPlace(thoughts) == SortedBySaliency(thoughts)

\* ThoughtReservoir.retrieve_top_k: self.thoughts after the call.  The
\* method binds a local name to the filtered list, sorted() builds a new
\* list, and no attribute of a thought is assigned
ThoughtsAfterRetrieve(thoughts) == thoughts

\* MemoryStore.add
MemoryAdd(store, memory) ==
    IF ~memory.has_type THEN [exc |-> "AttributeError", store |-> store]
    ELSE IF memory.type = "long_term"
    THEN [exc |-> "none",
          store |-> [store EXCEPT !.long_term_memory = ListAppend(@, memory)]]
    ELSE [exc |-> "none",
          store |-> [store EXCEPT !.short_term_memory = ListAppend(@, memory)]]

\* MemoryStore.remove
MemoryRemove(store, memory) ==
    IF ~memory.has_type THEN [exc |-> "AttributeError", store |-> store]
    ELSE IF memory.type = "long_term"
    THEN LET r == ListRemove(store.long_term_memory, memory)
         IN  [exc |-> r.exc,
              store |-> [store EXCEPT !.long_term_memory = r.list]]
    ELSE LET r == ListRemove(store.short_term_memory, memory)
         IN  [exc |-> r.exc,
              store |-> [store EXCEPT !.short_term_memory = r.list]]

\* the parameters of MemoryStore.retrieve_top_k
MemoryRetrieveParams == {"k", "by", "type"}

\* MemoryStore.retrieve_top_k: the body is pass, so a call that binds its
\* keywords returns None; a keyword that is no parameter is a TypeError
MemoryRetrieveTopK(keywords) ==
    IF keywords \subseteq MemoryRetrieveParams THEN "none" ELSE "TypeError"

\* the keyword sets of the calls: the method's own, and the one
\* utils/thinking_engine.py uses
MemoryRetrieveCalls == {{"k", "by", "type"}, {"k", "threshold", "memory_type"}}

\* arguments of retrieve_top_k
RetrieveCounts == {-1, 0, 1, 2, 5}
RetrieveThresholds == {DefaultSaliencyThreshold, 40}
RetrieveTypes == {THOUGHT_SYSTEM1, THOUGHT_SYSTEM2, MEMORY_LONG_TERM, "any"}

NoObject == 0

\* the record of an operation: its name, the object or the arguments it was
\* given, the exception it raised, the list it returned (returned_none
\* when it returned None)
Operation(op, obj, k, threshold, type, e, value, returned_none) ==
    [op |-> op, obj |-> obj, k |-> k, threshold |-> threshold, type |-> type,
     exc |-> e, value |-> value, returned_none |-> returned_none]

NoOperation == Operation("none", NoObject, 0, 0, "", "none", <<>>, TRUE)

EmptyStore == [long_term_memory |-> <<>>, short_term_memory |-> <<>>]

\* the number of objects held
Stored(thoughts, store) ==
    Len(thoughts) + Len(store.long_term_memory) + Len(store.short_term_memory)

ResIdle ==
    /\ reservoir = <<>>
    /\ memory_store = EmptyStore
    /\ res_last = Operation("off", NoObject, 0, 0, "", "none", <<>>, TRUE)

ResInit ==
    /\ reservoir = <<>>
    /\ memory_store = EmptyStore
    /\ res_last = NoOperation

\* reservoir.add(thought)
Add ==
    /\ Stored(reservoir, memory_store) < MaxReservoir
    /\ \E thought \in ThoughtPool :
         /\ reservoir' = ReservoirAdd(reservoir, thought)
         /\ res_last' = Operation("add", thought.obj, 0, 0, "", "none",
                                  <<>>, TRUE)
    /\ UNCHANGED <<memory_store, convVars, turnVars, selVars, logVars,
                   salVars, mindVars>>

\* reservoir.remove(thought)
Remove ==
    /\ \E thought \in ThoughtPool :
         LET r == ReservoirRemove(reservoir, thought)
         IN  /\ reservoir' = r.list
             /\ res_last' = Operation("remove", thought.obj, 0, 0, "", r.exc,
                                      <<>>, TRUE)
    /\ UNCHANGED <<memory_store, convVars, turnVars, selVars, logVars,
                   salVars, mindVars>>

\* reservoir.retrieve_top_k(k, threshold, thought_type)
Retrieve ==
    /\ \E k \in RetrieveCounts, threshold \in RetrieveThresholds,
          thought_type \in RetrieveTypes :
         res_last' = Operation("retrieve_top_k", NoObject, k, threshold,
                               thought_type, "none",
                               RetrieveTopK(reservoir, k, threshold,
                                            thought_type),
                               FALSE)
    /\ reservoir' = ThoughtsAfterRetrieve(reservoir)
    /\ UNCHANGED <<memory_store, convVars, turnVars, selVars, logVars,
                   salVars, mindVars>>

\* memory_store.add(memory)
MemAdd ==
    /\ Stored(reservoir, memory_store) < MaxReservoir
    /\ \E memory \in MemoryPool :
         LET r == MemoryAdd(memory_store, memory)
         IN  /\ memory_store' = r.store
             /\ res_last' = Operation("memory_add", memory.obj, 0, 0, "",
                                      r.exc, <<>>, TRUE)
    /\ UNCHANGED <<reservoir, convVars, turnVars, selVars, logVars, salVars,
                   mindVars>>

\* memory_store.remove(memory)
MemRemove ==
    /\ \E memory \in MemoryPool :
         LET r == MemoryRemove(memory_store, memory)
         IN  /\ memory_store' = r.store
             /\ res_last' = Operation("memory_remove", memory.obj, 0, 0, "",
                                      r.exc, <<>>, TRUE)
    /\ UNCHANGED <<reservoir, convVars, turnVars, selVars, logVars, salVars,
                   mindVars>>

\* memory_store.retrieve_top_k(...)
MemRetrieve ==
    /\ \E keywords \in MemoryRetrieveCalls :
         res_last' = Operation("memory_retrieve_top_k", NoObject, 0, 0, "",
                               MemoryRetrieveTopK(keywords), <<>>, TRUE)
    /\ UNCHANGED <<reservoir, memory_store, convVars, turnVars, selVars,
                   logVars, salVars, mindVars>>

(***************************************************************************)
(* The agents' minds: the MemoryStore and the ThoughtReservoir each Agent   *)
(* is given by its constructor (models/participant.py lines 74-75), under   *)
(* the operations of the think pipeline.                                    *)
(***************************************************************************)
\* a mental object held by an agent: the MentalObject attributes, and for a
\* thought has_score / score of intrinsic_motivation.  The class Memory
\* sets no attribute (models/memory.py lines 3-5): a memory carries the
\* attributes its holder has given it
MindItem(obj, type, turn, last_accessed_turn, saliency, score) ==
    [obj |-> obj, id |-> obj, agent_id |-> obj \div 10, type |-> type,
     turn_number |-> turn, embedding |-> <<3, 4>>, has_weight |-> TRUE,
     weight |-> 100, last_accessed_turn |-> last_accessed_turn,
     retrieval_count |-> 0, saliency_is_nan |-> FALSE, saliency |-> saliency,
     has_score |-> TRUE, score |-> score]

\* Agent.__init__: a MemoryStore and a ThoughtReservoir of its own.
\* implemented tells which retrieve_top_k the store object has: the one of
\* models/memory.py, whose body is pass, or one that does what its callers
\* in utils/thinking_engine.py ask of it
Mind(long_term_memory, short_term_memory, thoughts, implemented) ==
    [long_term_memory |-> long_term_memory,
     short_term_memory |-> short_term_memory,
     thoughts |-> thoughts, implemented |-> implemented]

\* the agent's own objects are reached through self / agent: a step of
\* agent i replaces the mind of agent i
MindsAfter_Shared(all, i, mind) == [j \in DOMAIN all |-> mind]

MindsAfter(all, i, mind) == [all EXCEPT ![i] = mind]

\* a loop over the events that reads the given attributes of each: Event
\* sets the attributes named by its parameters, and participant_name only
\* when the holder of the event has set it
ReadsEvents(history, attributes, events_named) ==
    IF history = <<>> THEN "none"
    ELSE IF attributes \subseteq
              (EventParams \cup IF events_named THEN {"participant_name"}
                                                ELSE {})
    THEN "none"
    ELSE "AttributeError"

\* retrieve_top_k of a store that implements it: the long-term memories
\* of saliency >= threshold, by descending saliency, at most k
StoreRetrieveTopK(store, k, threshold) ==
    RetrieveTopK(store.long_term_memory, k, threshold, MEMORY_LONG_TERM)

\* memory_store.retrieve_top_k(k=, threshold=, memory_type=) as the thinking
\* engine calls it.  On the MemoryStore of models/memory.py the keywords
\* threshold and memory_type are no parameters: TypeError
SalientMemories(mind, k, threshold) ==
    IF mind.implemented
    THEN Returned(StoreRetrieveTopK(mind, k, threshold))
    ELSE LET e == MemoryRetrieveTopK({"k", "threshold", "memory_type"})
         IN  IF e # "none" THEN Raised(e) ELSE Raised("TypeError")

\* for item in retrieved: item.last_accessed_turn = conversation.turn_number
Touch(list, retrieved, turn) ==
    [i \in 1..Len(list) |->
        IF \E j \in 1..Len(retrieved) : retrieved[j].obj = list[i].obj
        THEN [list[i] EXCEPT !.last_accessed_turn = turn]
        ELSE list[i]]

\* what the completion service answers to the generation prompt: the call
\* fails, or the answer holds no thought, a thought whose stimuli name an
\* event (CON#), or a thought without stimuli
GenerationResponses == {"failure", "no_thoughts", "thought_con", "thought"}

\* generate_system2_thoughts from line 177 on.  conversation.get_by_id does
\* not exist, and Thought(..., compute_embedding=True) hands MentalObject a
\* keyword it does not take, after conversation.turn_number has been read
GenerationTail(response, turn) ==
    IF response = "failure" THEN "ExternalCallFailure"
    ELSE IF response = "no_thoughts" THEN "none"
    ELSE IF response = "thought_con" THEN "AttributeError"
    ELSE IF turn = <<>> THEN "AttributeError"
    ELSE "TypeError"

\* generate_system2_thoughts(conversation, agent): the exception that leaves
\* it and the agent's mind afterwards.  Line 118 reads event.id, which no
\* Event has
GenerateSystem2Thoughts(mind, history, events_named, turn, response) ==
    IF ReadsEvents(history, {"id", "participant_name", "content"},
                   events_named) # "none"
    THEN [exc |-> "AttributeError", mind |-> mind]
    ELSE
    LET salient == SalientMemories(mind, 5, DefaultSaliencyThreshold)
    IN  IF salient.exc # "none" THEN [exc |-> salient.exc, mind |-> mind]
        ELSE IF salient.value # <<>> /\ turn = <<>>
        THEN [exc |-> "AttributeError", mind |-> mind]
        ELSE
        LET touched ==
                IF salient.value = <<>> THEN mind
                ELSE [mind EXCEPT !.long_term_memory =
                                      Touch(@, salient.value, turn[1])]
            previous == RetrieveTopK(mind.thoughts, 3,
                                     DefaultSaliencyThreshold, THOUGHT_SYSTEM2)
        IN  IF previous # <<>> /\ turn = <<>>
            THEN [exc |-> "AttributeError", mind |-> touched]
            ELSE [exc |-> GenerationTail(response, turn),
                  mind |-> IF previous = <<>> THEN touched
                           ELSE [touched EXCEPT !.thoughts =
                                                  Touch(@, previous, turn[1])]]

\* the last event as the utterance of recalibrate_all_saliency
EventUtterance(event) ==
    UtteranceObject("Event", <<3, 4>>, <<4, 3>>, event.turn_number)

\* Agent.think: the exception that leaves it and the agent's mind
\* afterwards.  has_embedding is last_event.embedding is not None
AgentThink(mind, p, history, events_named, turn, has_embedding) ==
    IF history = <<>> THEN [exc |-> "none", mind |-> mind]
    ELSE
    LET last_event == history[Len(history)]
        memories == RecalibrateAllSaliency(mind.long_term_memory,
                        EventUtterance(last_event), 100, 100, 100)
        thoughts == RecalibrateAllSaliency(mind.thoughts,
                        EventUtterance(last_event), 100, 100, 100)
        recalibrated == [mind EXCEPT !.long_term_memory = memories.items]
    IN  IF last_event.participant_id = p.id
        THEN [exc |-> "none", mind |-> mind]
        \* line 140: Event has no compute_embedding_async
        ELSE IF ~has_embedding
        THEN [exc |-> "AttributeError", mind |-> mind]
        ELSE IF memories.exc # "none"
        THEN [exc |-> memories.exc, mind |-> recalibrated]
        ELSE IF thoughts.exc # "none"
        THEN [exc |-> thoughts.exc,
              mind |-> [recalibrated EXCEPT !.thoughts = thoughts.items]]
        \* lines 156-163: the arguments of Memory(...) are evaluated
        \* (last_event.participant_name, conversation.turn_number), then the
        \* class, which takes no argument, is called.  Nothing is added
        ELSE [exc |-> IF ~events_named \/ turn = <<>> THEN "AttributeError"
                      ELSE "TypeError",
              mind |-> [recalibrated EXCEPT !.thoughts = thoughts.items]]

\* what the completion service answers to the evaluation prompt.  kind:
\* the call fails; the text is no JSON; the rating is a word; the rating
\* is null; the object holds no key 'rating'; the object holds a rating.
\* has_weighted: the logprobs hold the rating token
\* with top_logprobs, whose weighted average is weighted
EvaluationResponse(kind, rating, has_weighted, weighted) ==
    [kind |-> kind, rating |-> rating, has_weighted |-> has_weighted,
     weighted |-> weighted]

\* the responses that are no evaluation: unparseable, or parsed to
\* something that holds no rating number
Malformed(response) ==
    response.kind \in {"not_json", "rating_word", "rating_null"}

\* response_data.get("rating", 3)
DefaultRating == 300
\* the bounds of line 384 and the base of line 380
LowestRating == 100
HighestRating == 500
SilenceBase == 101

EvaluationResponses ==
    {EvaluationResponse(kind, 0, FALSE, 0) :
        kind \in {"failure", "not_json", "rating_word", "rating_null",
                  "no_rating"}}
    \cup {EvaluationResponse("rated", 700, FALSE, 0)}
    \cup {EvaluationResponse("rated", 400, TRUE, 450)}

\* lines 340-342: json.loads and float(response_data.get("rating", 3)).
\* float(None) is a TypeError
BaseRating(response) ==
    IF response.kind = "not_json" THEN Raised("JSONDecodeError")
    ELSE IF response.kind = "rating_word" THEN Raised("ValueError")
    ELSE IF response.kind = "rating_null" THEN Raised("TypeError")
    ELSE IF response.kind = "no_rating" THEN Returned(DefaultRating)
    ELSE Returned(response.rating)

\* lines 375-376
TurnsNoSpeak(current_turn, spoken) ==
    IF spoken >= 0 THEN current_turn - spoken ELSE current_turn

\* lines 380-384: the rating times 1.01 ** turns_no_speak, held in [1, 5]
Clamped(rating) ==
    IF rating > HighestRating THEN HighestRating
    ELSE IF rating < LowestRating THEN LowestRating ELSE rating

AdjustedRating(rating, turns_no_speak) ==
    Clamped((rating * Pow(SilenceBase, turns_no_speak)) \div 100)

\* the except clause of line 400
CaughtByEvaluate == {"JSONDecodeError", "ValueError", "AttributeError",
                     "KeyError"}

\* the try block of evaluate_thought: the score it yields, or the exception
\* it raises
EvaluationScore(response, turn, spoken) ==
    LET base == BaseRating(response)
    IN  IF base.exc # "none" THEN Raised(base.exc)
        ELSE IF turn = <<>> THEN Raised("AttributeError")
        ELSE Returned(AdjustedRating(
                 IF response.has_weighted THEN response.weighted
                 ELSE base.value,
                 TurnsNoSpeak(turn[1], spoken)))

\* thought.intrinsic_motivation = motivation_result, for thought k
Motivated(mind, k, score) ==
    [mind EXCEPT !.thoughts[k].has_score = TRUE, !.thoughts[k].score = score]

\* evaluate_thought(thought, conversation, agent) for thought k of the
\* agent: the exception that leaves it, whether the response of the
\* service was received, the score of the dict returned, the agent's mind
\* afterwards
EvaluateThought(mind, k, history, events_named, turn, spoken, response) ==
    IF ReadsEvents(history, {"participant_name", "content"}, events_named)
           # "none"
    THEN [exc |-> "AttributeError", received |-> FALSE, score |-> 0,
          mind |-> mind]
    ELSE IF ~mind.implemented
    THEN [exc |-> SalientMemories(mind, 10, DefaultSaliencyThreshold).exc,
          received |-> FALSE, score |-> 0, mind |-> mind]
    ELSE IF response.kind = "failure"
    THEN [exc |-> "ExternalCallFailure", received |-> FALSE, score |-> 0,
          mind |-> mind]
    ELSE
    LET r == EvaluationScore(response, turn, spoken)
    IN  IF r.exc = "none"
        THEN [exc |-> "none", received |-> TRUE, score |-> r.value,
              mind |-> Motivated(mind, k, r.value)]
        ELSE IF r.exc \in CaughtByEvaluate
        THEN [exc |-> "none", received |-> TRUE, score |-> Sentinel,
              mind |-> Motivated(mind, k, Sentinel)]
        ELSE [exc |-> r.exc, received |-> TRUE, score |-> 0, mind |-> mind]

(***************************************************************************)
(* Conversation.get_last_n_events and predict_next_speaker.                *)
(***************************************************************************)
\* the slice list[start:]
SliceFrom(list, start) ==
    LET first == IF start < 0
                 THEN (IF Len(list) + start > 0 THEN Len(list) + start ELSE 0)
                 ELSE (IF start < Len(list) THEN start ELSE Len(list))
    IN  SubSeq(list, first + 1, Len(list))

\* Conversation.get_last_n_events: self.event_history[-n:]
GetLastNEvents(history, n) == SliceFrom(history, -n)

\* the text of a completion, as the list of its pieces: names, other
\* words, and white space
WhiteSpace == {" ", "\n"}

\* str.strip
RECURSIVE LStrip(_)
LStrip(text) ==
    IF text # <<>> /\ text[1] \in WhiteSpace THEN LStrip(Tail(text)) ELSE text

Strip(text) == Reverse(LStrip(Reverse(LStrip(text))))

\* what get_completion yields to the prediction prompt: it raises, or it
\* returns a dict that holds the key 'text' or does not
PredictionResponse(kind, text) == [kind |-> kind, text |-> text]

PredictionResponses ==
    {PredictionResponse("failure", <<>>), PredictionResponse("no_text", <<>>)}
    \cup {PredictionResponse("text", t) :
            t \in {<<"Alice">>, <<" ", "Bob", "\n">>, <<"anyone">>,
                   <<"Zed">>, <<"Bob", " ", "Alice">>}}

\* [p.name for p in participants] + ["anyone"]
ValidSpeakers(ps) == {<<ps[i].name>> : i \in Indices(ps)} \cup {<<"anyone">>}

\* predict_next_speaker: the exception that leaves it, the value returned,
\* the event log afterwards.  The loop of lines 24-25 stands before the try
PredictNextSpeaker(history, events_named, ps, response) ==
    LET last_events == GetLastNEvents(history, 5)
        predicted_speaker == IF response.kind = "text"
                             THEN Strip(response.text) ELSE <<>>
    IN  IF ReadsEvents(last_events, {"participant_name", "content"},
                       events_named) # "none"
        THEN [exc |-> "AttributeError", value |-> "", history |-> history]
        ELSE IF response.kind = "failure"
        THEN [exc |-> "none", value |-> "anyone", history |-> history]
        ELSE IF predicted_speaker \notin ValidSpeakers(ps)
        THEN [exc |-> "none", value |-> "anyone", history |-> history]
        ELSE IF last_events # <<>> /\ predicted_speaker # <<"anyone">>
        THEN [exc |-> "none", value |-> predicted_speaker[1],
              history |-> [history EXCEPT ![Len(history)].pred_next_turn =
                                              predicted_speaker[1]]]
        ELSE [exc |-> "none", value |-> predicted_speaker[1],
              history |-> history]

(***************************************************************************)
(* Participant.__init__ and the list of participants.                      *)
(***************************************************************************)
\* the argument id: given is id is not None
IdArgument(given, id) == [given |-> given, id |-> id]

\* Participant.__init__, which Human.__init__ and Agent.__init__ call: the
\* participant made and Participant._next_id afterwards
ParticipantInit(counter, name, type, id) ==
    IF ~id.given
    THEN [participant |-> Participant(ToString(counter), name, type,
                                      EmptyConfig),
          next_id |-> counter + 1]
    ELSE [participant |-> Participant(id.id, name, type, EmptyConfig),
          next_id |-> counter]

\* Conversation.add_participant
AddParticipant(ps, participant) == ListAppend(ps, participant)

(***************************************************************************)
(* The state of the three specifications above a conversation: the minds   *)
(* of the agents, the participants constructed, and the last call.         *)
(***************************************************************************)
\* the record of a call: its name, the agent it ran for (None for none),
\* the exception that left it, whether it changed that agent's mind, the
\* argument n, and what it returned: a score, a name, or a list of events
\* (for evaluate_thought text tells what the response received was)
Invoked(op, agent, e, changed, n, score, text, events) ==
    [op |-> op, agent |-> agent, exc |-> e, changed |-> changed, n |-> n,
     score |-> score, text |-> text, events |-> events]

NoCall == Invoked("none", None, "none", FALSE, 0, 0, "", <<>>)

EmptyMind == Mind(<<>>, <<>>, <<>>, FALSE)

MindIdle ==
    /\ minds = [i \in AgentIndices(Roster) |-> EmptyMind]
    /\ named = FALSE
    /\ next_id = 0
    /\ constructed = <<>>
    /\ call = Invoked("off", None, "none", FALSE, 0, 0, "", <<>>)

\* the long-term memories and the thoughts an agent may hold: salient and
\* accessed last at turn 2, or not salient and accessed last at turn 0
SalientMemory ==
    [type |-> MEMORY_LONG_TERM, last_accessed_turn |-> 2, saliency |-> 50]
FaintMemory ==
    [type |-> MEMORY_LONG_TERM, last_accessed_turn |-> 0, saliency |-> 10]
DeliberateThought ==
    [type |-> THOUGHT_SYSTEM2, last_accessed_turn |-> 2, saliency |-> 50]
QuickThought ==
    [type |-> THOUGHT_SYSTEM1, last_accessed_turn |-> 0, saliency |-> 50]

\* the lists of them Alice starts with
MemoryLists == {<<>>, <<FaintMemory, SalientMemory>>}
ThoughtLists == {<<>>, <<DeliberateThought>>,
                 <<QuickThought, DeliberateThought>>}

\* the objects of agent i of the given shapes, from object number base on
HeldBy(i, base, shapes) ==
    [k \in 1..Len(shapes) |->
        MindItem(i * 10 + base + k, shapes[k].type, 1,
                 shapes[k].last_accessed_turn, shapes[k].saliency, Sentinel)]

\* Alice's mind varies; Bob holds a thought in a reservoir beside the
\* MemoryStore of models/memory.py; Carol holds nothing
MindsOf(memories, thoughts, implemented) ==
    [i \in AgentIndices(Roster) |->
        IF i = 1
        THEN Mind(HeldBy(1, 5, memories), <<>>, HeldBy(1, 0, thoughts),
                  implemented)
        ELSE IF i = 3
        THEN Mind(<<>>, <<>>,
                  <<MindItem(31, THOUGHT_SYSTEM2, 1, 0, 50, Sentinel)>>,
                  FALSE)
        ELSE EmptyMind]

\* the logs of the mind specification: empty, or one event of Hank or of
\* Alice at turn 1
MindHistories == {<<>>, <<Event("1", 1, "")>>, <<Event("0", 1, "")>>}

MindInit ==
    /\ participants = Roster
    /\ event_history \in MindHistories
    /\ turn_number \in {<<>>, <<1>>}
    /\ thought_reservoir = [i \in AgentIndices(Roster) |-> <<>>]
    /\ last_spoken_turn = [i \in Indices(Roster) |-> NeverSpoken]
    /\ \E memories \in MemoryLists, thoughts \in ThoughtLists,
          implemented \in BOOLEAN :
         minds = MindsOf(memories, thoughts, implemented)
    /\ named \in BOOLEAN
    /\ next_id = 0
    /\ constructed = <<>>
    /\ call = NoCall

\* the task of agent i runs think
ThinkCall ==
    /\ \E i \in AgentIndices(participants), has_embedding \in BOOLEAN :
         LET r == AgentThink(minds[i], participants[i], event_history, named,
                             turn_number, has_embedding)
         IN  /\ minds' = MindsAfter(minds, i, r.mind)
             /\ call' = Invoked("think", i, r.exc, r.mind # minds[i], 0, 0,
                                "", <<>>)
    /\ UNCHANGED <<named, next_id, constructed, convVars, turnVars, selVars,
                   logVars, salVars, resVars>>

\* generate_system2_thoughts(conversation, agent i)
GenerateCall ==
    /\ \E i \in AgentIndices(participants), response \in GenerationResponses :
         LET r == GenerateSystem2Thoughts(minds[i], event_history, named,
                                          turn_number, response)
         IN  /\ minds' = MindsAfter(minds, i, r.mind)
             /\ call' = Invoked("generate_system2_thoughts", i, r.exc,
                                r.mind # minds[i], 0, 0, "", <<>>)
    /\ UNCHANGED <<named, next_id, constructed, convVars, turnVars, selVars,
                   logVars, salVars, resVars>>

\* utterances handed to recalibrate_all_saliency on its own
MindUtterances ==
    {UtteranceObject("Plain", <<1, 0>>, <<1, 0>>, 1)}

\* recalibrate_all_saliency(items=agent i's thoughts, utterance=...)
RecalibrateMindCall ==
    /\ \E i \in AgentIndices(participants), utterance \in MindUtterances :
         LET r == RecalibrateAllSaliency(minds[i].thoughts, utterance,
                                         100, 100, 100)
             mind == [minds[i] EXCEPT !.thoughts = r.items]
         IN  /\ minds' = MindsAfter(minds, i, mind)
             /\ call' = Invoked("recalibrate_all_saliency", i, r.exc,
                                mind # minds[i], 0, 0, "", <<>>)
    /\ UNCHANGED <<named, next_id, constructed, convVars, turnVars, selVars,
                   logVars, salVars, resVars>>

\* agent i's thought_reservoir.retrieve_top_k()
RetrieveMindCall ==
    /\ \E i \in AgentIndices(participants) :
         LET mind == [minds[i] EXCEPT !.thoughts = ThoughtsAfterRetrieve(@)]
         IN  /\ minds' = MindsAfter(minds, i, mind)
             /\ call' = Invoked("retrieve_top_k", i, "none",
                                mind # minds[i], 0, 0, "", <<>>)
    /\ UNCHANGED <<named, next_id, constructed, convVars, turnVars, selVars,
                   logVars, salVars, resVars>>

\* evaluate_thought(thought k of agent i, conversation, agent i)
EvaluateCall ==
    /\ \E i \in AgentIndices(participants), response \in EvaluationResponses :
         \E k \in 1..Len(minds[i].thoughts) :
            LET r == EvaluateThought(minds[i], k, event_history, named,
                                     turn_number, last_spoken_turn[i],
                                     response)
            IN  /\ minds' = MindsAfter(minds, i, r.mind)
                /\ call' = Invoked("evaluate_thought", i, r.exc,
                                   r.mind # minds[i], k, r.score,
                                   IF ~r.received THEN ""
                                   ELSE IF Malformed(response)
                                   THEN "malformed" ELSE "evaluation",
                                   <<>>)
    /\ UNCHANGED <<named, next_id, constructed, convVars, turnVars, selVars,
                   logVars, salVars, resVars>>

\* the task of agent i runs act
ActCall ==
    /\ \E i \in AgentIndices(participants), draw \in Draws :
         LET r == AgentAct(participants[i], minds[i].thoughts, event_history,
                           turn_number, draw)
         IN  call' = Invoked("act", i, r.exc, FALSE, Len(r.value), 0, "",
                             <<>>)
    /\ UNCHANGED <<minds, named, next_id, constructed, convVars, turnVars,
                   selVars, logVars, salVars, resVars>>

InitMind == MindInit /\ TurnOff /\ SelIdle /\ LogIdle /\ SalIdle /\ ResIdle

NextMind ==
    \/ ThinkCall
    \/ GenerateCall
    \/ RecalibrateMindCall
    \/ RetrieveMindCall
    \/ EvaluateCall
    \/ ActCall

SpecMind == InitMind /\ [][NextMind]_vars

\* most events of a log of the predictor specification
MaxLog == 2

\* the events of those logs: of Hank or of Alice, not annotated or
\* annotated with an earlier prediction
PredictEvents ==
    {Event(pid, 1, pred) : pid \in {"0", "1"}, pred \in {"", "Bob"}}

PredictInit ==
    /\ participants = Roster
    /\ event_history \in UNION {[1..n -> PredictEvents] : n \in 0..MaxLog}
    /\ turn_number = <<1>>
    /\ thought_reservoir = [i \in AgentIndices(Roster) |-> <<>>]
    /\ last_spoken_turn = [i \in Indices(Roster) |-> NeverSpoken]
    /\ minds = [i \in AgentIndices(Roster) |-> EmptyMind]
    /\ named \in BOOLEAN
    /\ next_id = 0
    /\ constructed = <<>>
    /\ call = NoCall

\* predict_next_speaker(conversation)
PredictCall ==
    /\ \E response \in PredictionResponses :
         LET r == PredictNextSpeaker(event_history, named, participants,
                                     response)
         IN  /\ event_history' = r.history
             /\ call' = Invoked("predict_next_speaker", None, r.exc,
                                FALSE, 0, 0, r.value, <<>>)
    /\ UNCHANGED <<participants, turn_number, thought_reservoir,
                   last_spoken_turn, minds, named, next_id, constructed,
                   turnVars, selVars, logVars, salVars, resVars>>

\* the arguments of get_last_n_events: none, one, the default, more
LastCounts == {0, 1, 2, 5}

\* conversation.get_last_n_events(n)
GetLastCall ==
    /\ \E n \in LastCounts :
         call' = Invoked("get_last_n_events", None, "none", FALSE, n, 0, "",
                         GetLastNEvents(event_history, n))
    /\ UNCHANGED <<minds, named, next_id, constructed, convVars, turnVars,
                   selVars, logVars, salVars, resVars>>

InitPredict ==
    PredictInit /\ TurnOff /\ SelIdle /\ LogIdle /\ SalIdle /\ ResIdle

NextPredict ==
    \/ PredictCall
    \/ GetLastCall

SpecPredict == InitPredict /\ [][NextPredict]_vars

\* most participants constructed, and most entries of the list
MaxConstructed == 3

RosterNames == {"Alice"}
RosterTypes == {HUMAN, AGENT}
\* no id, or an id the caller chooses
RosterIds == {IdArgument(FALSE, ""), IdArgument(TRUE, "0"),
              IdArgument(TRUE, "7")}

\* Conversation.__init__ before any participant exists
RosterInit ==
    /\ participants = <<>>
    /\ event_history = <<>>
    /\ turn_number = <<>>
    /\ thought_reservoir = [i \in AgentIndices(Roster) |-> <<>>]
    /\ last_spoken_turn = [i \in Indices(Roster) |-> NeverSpoken]
    /\ minds = [i \in AgentIndices(Roster) |-> EmptyMind]
    /\ named = FALSE
    /\ next_id = 0
    /\ constructed = <<>>
    /\ call = NoCall

\* Participant(...), Human(...) or Agent(...)
Construct ==
    /\ Len(constructed) < MaxConstructed
    /\ \E name \in RosterNames, type \in RosterTypes, id \in RosterIds :
         LET r == ParticipantInit(next_id, name, type, id)
         IN  /\ constructed' = Append(constructed, r.participant)
             /\ next_id' = r.next_id
             /\ call' = Invoked("__init__", None, "none", FALSE,
                                Len(constructed) + 1, 0, r.participant.id,
                                <<>>)
    /\ UNCHANGED <<minds, named, convVars, turnVars, selVars, logVars,
                   salVars, resVars>>

\* conversation.add_participant(the k-th participant constructed)
AddParticipantCall ==
    /\ Len(participants) < MaxConstructed
    /\ \E k \in 1..Len(constructed) :
         /\ participants' = AddParticipant(participants, constructed[k])
         /\ call' = Invoked("add_participant", None, "none", FALSE, k, 0,
                            constructed[k].id, <<>>)
    /\ UNCHANGED <<event_history, turn_number, thought_reservoir,
                   last_spoken_turn, minds, named, next_id, constructed,
                   turnVars, selVars, logVars, salVars, resVars>>

InitRoster == RosterInit /\ TurnOff /\ SelIdle /\ LogIdle /\ SalIdle /\ ResIdle

NextRoster ==
    \/ Construct
    \/ AddParticipantCall

SpecRoster == InitRoster /\ [][NextRoster]_vars

Init == TurnInit /\ SelIdle /\ LogIdle /\ SalIdle /\ ResIdle /\ MindIdle

Next ==
    \/ Call
    \/ \E i \in Indices(participants) : Act(i)
    \/ GatherRaises
    \/ Arbitrate
    \/ ArticulateReturns
    \/ ArticulateRaises
    \/ SendUtterance

Spec == Init /\ [][Next]_vars

InitSelect == SelInit /\ TurnIdle /\ LogIdle /\ SalIdle /\ ResIdle /\ MindIdle

NextSelect == Select

SpecSelect == InitSelect /\ [][NextSelect]_vars

\* the event log under its operations
InitLog == LogInit /\ TurnOff /\ SelIdle /\ SalIdle /\ ResIdle /\ MindIdle

NextLog ==
    \/ RecordEvent
    \/ \E i \in Indices(participants) : LogSend(i)
    \/ \E i \in Indices(participants) : LogThink(i)
    \/ \E i \in Indices(participants) : LogAct(i)

SpecLog == InitLog /\ [][NextLog]_vars

\* recalibrate_all_saliency on free inputs
InitSaliency == SalInit /\ TurnIdle /\ SelIdle /\ LogIdle /\ ResIdle /\ MindIdle

NextSaliency == RecalibrateCall

SpecSaliency == InitSaliency /\ [][NextSaliency]_vars

\* a reservoir and a memory store under their operations
InitReservoir ==
    ResInit /\ TurnIdle /\ SelIdle /\ LogIdle /\ SalIdle /\ MindIdle

NextReservoir ==
    \/ Add
    \/ Remove
    \/ Retrieve
    \/ MemAdd
    \/ MemRemove
    \/ MemRetrieve

SpecReservoir == InitReservoir /\ [][NextReservoir]_vars

(***************************************************************************)
(* Properties of Agent.select_thoughts (SpecSelect).  The expected result  *)
(* is stated on positions of the input batch, without the sort.            *)
(***************************************************************************)
SelBatch == sel_in.thoughts

\* the prediction select_thoughts branches on, when there is a last event
SelHasEvent == sel_in.history # <<>>
SelPredicted == sel_in.history[Len(sel_in.history)].pred_next_turn

\* positions of the batch whose thought carries a score
ScoredPositions == {i \in 1..Len(SelBatch) : SelBatch[i].has_score}

\* positions whose score is an evaluation result, not the sentinel
EvaluatedPositions == {i \in ScoredPositions : SelBatch[i].score # Sentinel}

SystemOnePositions ==
    {i \in ScoredPositions : SelBatch[i].type = THOUGHT_SYSTEM1}

\* the top-scored thought among the positions P: highest score, and the
\* earliest position of the batch among equal scores
IsTop(i, P) ==
    /\ i \in P
    /\ \A j \in P : SelBatch[j].score <= SelBatch[i].score
    /\ \A j \in P : SelBatch[j].score = SelBatch[i].score => i <= j

TopOf(P) == SelBatch[CHOOSE i \in P : IsTop(i, P)]

HighestScoreAtLeast(P, threshold) ==
    \E i \in P : SelBatch[i].score >= threshold

SelImThreshold ==
    IF "im_threshold" \in DOMAIN sel_in.config
    THEN sel_in.config["im_threshold"] ELSE 70
SelSystem1Prob ==
    IF "system1_prob" \in DOMAIN sel_in.config
    THEN sel_in.config["system1_prob"] ELSE 30
SelInterruptThreshold ==
    IF "interrupt_threshold" \in DOMAIN sel_in.config
    THEN sel_in.config["interrupt_threshold"] ELSE 85

\* C5: select_thoughts returns a list of at most one thought, and that
\* thought is an element of the input batch.
C5_AtMostOneFromBatch ==
    sel_pc = "returned" =>
        /\ Len(sel_out.value) <= 1
        /\ \A k \in 1..Len(sel_out.value) :
             \E i \in 1..Len(SelBatch) : sel_out.value[k] = SelBatch[i]

\* a batch of two selectable thoughts, of which one is returned
C5_Witness ==
    /\ sel_pc = "returned"
    /\ Len(SelBatch) = 2
    /\ \A i \in 1..2 : SelBatch[i].has_score /\ SelBatch[i].score >= 200
    /\ Len(sel_out.value) = 1

\* C6: when the last event's predicted next turn is "anyone": if the highest
\* score of the batch is >= im_threshold the result is exactly the
\* highest-scored thought; otherwise the result is nothing, or, only when the
\* draw is below system1_prob, the highest-scored THOUGHT_SYSTEM1 thought; it
\* is nothing when the batch has no THOUGHT_SYSTEM1 thought.
C6_Anyone ==
    (sel_pc = "returned" /\ SelHasEvent /\ SelPredicted = "anyone") =>
        IF HighestScoreAtLeast(ScoredPositions, SelImThreshold)
        THEN sel_out.value = <<TopOf(ScoredPositions)>>
        ELSE /\ \/ sel_out.value = <<>>
                \/ /\ sel_out.draw < SelSystem1Prob
                   /\ SystemOnePositions # {}
                   /\ sel_out.value = <<TopOf(SystemOnePositions)>>
             /\ (\A i \in 1..Len(SelBatch) :
                    SelBatch[i].type # THOUGHT_SYSTEM1) => sel_out.value = <<>>

\* the score equals the threshold and a second thought ties with it: the
\* earlier one is returned
C6_Witness ==
    /\ sel_pc = "returned" /\ SelHasEvent /\ SelPredicted = "anyone"
    /\ Len(SelBatch) = 2
    /\ SelBatch[1].has_score /\ SelBatch[1].score < SelImThreshold
    /\ SelBatch[2].has_score /\ SelBatch[2].score = SelImThreshold
    /\ sel_out.value = <<SelBatch[2]>>

\* C7: when the last event's predicted next turn is this agent's name and
\* the batch holds an evaluated thought, the result is exactly the top-scored
\* thought, whatever the thresholds are.
C7_OwnTurn ==
    (sel_pc = "returned" /\ SelHasEvent /\ SelPredicted = sel_in.name
        /\ EvaluatedPositions # {}) =>
        sel_out.value = <<TopOf(EvaluatedPositions)>>

\* the top score is below both thresholds and is still selected
C7_Witness ==
    /\ sel_pc = "returned" /\ SelHasEvent /\ SelPredicted = sel_in.name
    /\ Len(SelBatch) = 2
    /\ EvaluatedPositions = {1, 2}
    /\ SelBatch[1].score < SelBatch[2].score
    /\ SelBatch[2].score < SelImThreshold
    /\ SelBatch[2].score < SelInterruptThreshold
    /\ sel_out.value = <<SelBatch[2]>>

\* C8: when the last event's predicted next turn names another participant,
\* the result is the top-scored thought if its score is >= interrupt_threshold
\* and the empty list otherwise.
C8_Interrupt ==
    (sel_pc = "returned" /\ SelHasEvent /\ SelPredicted = "Bob") =>
        IF HighestScoreAtLeast(ScoredPositions, SelInterruptThreshold)
        THEN sel_out.value = <<TopOf(ScoredPositions)>>
        ELSE sel_out.value = <<>>

\* a top score equal to the threshold is returned
C8_Witness ==
    /\ sel_pc = "returned" /\ SelHasEvent /\ SelPredicted = "Bob"
    /\ ScoredPositions # {}
    /\ TopOf(ScoredPositions).score = SelInterruptThreshold
    /\ sel_out.value = <<TopOf(ScoredPositions)>>

\* C9: select_thoughts never returns a thought whose score is the
\* unevaluated sentinel.
C9_NeverSentinel ==
    sel_pc = "returned" =>
        \A k \in 1..Len(sel_out.value) : sel_out.value[k].score # Sentinel

(***************************************************************************)
(* Properties of decide_next_speaker (Spec).                               *)
(***************************************************************************)
\* the agents whose act() returned a non-empty list, and what they returned
CandidateAgents == {i \in 1..Len(participants) : results[i] # <<>>}
CandidateThoughts(i) == {results[i][k] : k \in 1..Len(results[i])}
AllCandidates == UNION {CandidateThoughts(i) : i \in CandidateAgents}

AllTasksDone == \A i \in 1..Len(participants) : task[i] = "done"

\* the highest score among the candidates, and the first participant in
\* registration order that holds a candidate of that score
HighestScore == CHOOSE m \in {t.score : t \in AllCandidates} :
                    \A t \in AllCandidates : t.score <= m
HoldsHighest(i) == \E t \in CandidateThoughts(i) : t.score = HighestScore
FirstHolder == CHOOSE i \in CandidateAgents :
                   /\ HoldsHighest(i)
                   /\ \A j \in CandidateAgents : HoldsHighest(j) => i <= j

\* C1: with at least one evaluated score among the selected thoughts, the
\* speaker is the agent owning the thought of the highest score; among equal
\* highest scores the agent registered first wins.
C1_HighestFirstWins ==
    (\E t \in AllCandidates : t.score # Sentinel) =>
        /\ pc = "articulating" =>
             /\ chosen.agent = FirstHolder
             /\ chosen.thought \in CandidateThoughts(FirstHolder)
             /\ chosen.thought.score = HighestScore
        /\ pc = "done" =>
             /\ result.speaker = FirstHolder
             /\ \E t \in CandidateThoughts(FirstHolder) :
                  t.score = HighestScore /\ result.utterance.of = t.id

\* Alice holds a lower score, Bob and Carol tie on the highest: Bob speaks
C1_Witness ==
    /\ pc = "done"
    /\ CandidateAgents = {1, 3, 4}
    /\ results[1][1].score < results[3][1].score
    /\ results[3][1].score = results[4][1].score
    /\ results[3][1].score # Sentinel
    /\ result.speaker = 3

\* C2: an agent whose act() raises counts as an empty selection:
\* decide_next_speaker does not raise.
C2_FailureIsEmptySelection ==
    (\E i \in 1..Len(participants) : task[i] \in Exceptions) => pc # "raised"

\* C3: when no agent returns a thought the result is (None, ""), nothing is
\* articulated, and no act() is run a second time.
C3_SilenceWhenNoThoughts ==
    (AllTasksDone /\ CandidateAgents = {}) =>
        /\ pc \in {"gathering", "done"}
        /\ articulated = <<>>
        /\ pc = "done" =>
             /\ result = [speaker |-> None, utterance |-> Utterance(0, "")]
             /\ \A i \in 1..Len(participants) : act_calls[i] = 1

\* agents held thoughts, none was selected, and the turn ended in silence
C3_Witness ==
    /\ pc = "done"
    /\ CandidateAgents = {}
    /\ \E i \in DOMAIN thought_reservoir :
         \E k \in 1..Len(thought_reservoir[i]) :
            <<thought_reservoir[i][k].turn_number>> = turn_number
    /\ result.speaker = None

\* C4: a task is started for every agent of the conversation, and the
\* winner is chosen only after every task has completed.
C4_Barrier ==
    /\ pc # "idle" =>
         \A i \in 1..Len(participants) :
            participants[i].type = AGENT => task[i] # "none"
    /\ pc \in {"articulating", "done"} =>
         \A i \in 1..Len(participants) : task[i] = "done" /\ act_calls[i] = 1

\* a winner is chosen among the results of two agents, all tasks done
C4_Witness ==
    /\ pc = "articulating"
    /\ AllTasksDone
    /\ Cardinality(CandidateAgents) >= 2
    /\ chosen.agent \in CandidateAgents

\* C10: when every candidate carries the sentinel score, the speaker is one
\* of the agents that returned a candidate and the utterance articulates one
\* of that agent's candidates.
C10_FallbackSpeaks ==
    (pc = "done" /\ CandidateAgents # {}
        /\ \A t \in AllCandidates : t.score = Sentinel) =>
        /\ result.speaker \in CandidateAgents
        /\ \E t \in CandidateThoughts(result.speaker) :
             result.utterance.of = t.id

\* two agents returned sentinel-scored thoughts and the later one speaks
C10_Witness ==
    /\ pc = "done"
    /\ CandidateAgents = {1, 4}
    /\ \A t \in AllCandidates : t.score = Sentinel
    /\ result.speaker = 4
    /\ result.utterance.of = results[4][1].id

(***************************************************************************)
(* Properties of the caller's send step (Spec).                            *)
(***************************************************************************)
LastEvent == event_history[Len(event_history)]

HasSpoken(i) ==
    \E k \in 1..Len(event_history) :
        event_history[k].participant_id = participants[i].id

\* C11: when a cycle has arbitrated a winner and its utterance has been
\* sent, the last event of event_history is authored by the winner and the
\* winner's last_spoken_turn is that event's turn_number; last_spoken_turn
\* is -1 for a participant that has authored no event.
C11_EventRecorded ==
    /\ pc \in {"recorded", "send_raised"} =>
         /\ event_history # <<>>
         /\ LastEvent.participant_id = participants[result.speaker].id
         /\ last_spoken_turn[result.speaker] = LastEvent.turn_number
    /\ \A i \in 1..Len(participants) :
         ~HasSpoken(i) => last_spoken_turn[i] = NeverSpoken

(***************************************************************************)
(* Properties of the event log (SpecLog).                                  *)
(***************************************************************************)
IsPrefix(s, t) == Len(s) <= Len(t) /\ SubSeq(t, 1, Len(s)) = s

\* C12: every step leaves the events already in event_history in place and
\* at most appends at the end, and a step of a think or act task (which
\* includes select_thoughts) leaves event_history as it is.
C12_AppendOnlySingleWriter ==
    [][ /\ IsPrefix(event_history, event_history')
        /\ last_op' \in {"think", "act"} => event_history' = event_history
      ]_vars

\* a think task has run past its early returns on a log of two events
C12_Witness ==
    /\ Len(event_history) = 2
    /\ event_history[1] # event_history[2]
    /\ last_op = "think"
    /\ last_exc = "AttributeError"

\* C13: the turn_number values of the events of event_history are strictly
\* increasing.
C13_TurnNumbersIncrease ==
    \A i, j \in 1..Len(event_history) :
        i < j => event_history[i].turn_number < event_history[j].turn_number

(***************************************************************************)
(* Properties of recalibrate_all_saliency (SpecSaliency).                  *)
(***************************************************************************)
RecCalled == rec_pc \in {"returned", "raised"}

RecSkips(i) ==
    rec_in.utterance.turn_number < rec_in.items[i].last_accessed_turn

\* C14: after recalibrate_all_saliency, every item of the batch with
\* utterance.turn_number < item.last_accessed_turn has the saliency and the
\* last_accessed_turn it had before, whatever the other items are.
C14_SkipLeavesUnchanged ==
    RecCalled =>
        /\ Len(rec_items) = Len(rec_in.items)
        /\ \A i \in 1..Len(rec_in.items) :
             RecSkips(i) =>
                /\ rec_items[i].saliency = rec_in.items[i].saliency
                /\ rec_items[i].saliency_is_nan =
                       rec_in.items[i].saliency_is_nan
                /\ rec_items[i].last_accessed_turn =
                       rec_in.items[i].last_accessed_turn

\* a batch of a skipped item and a recalibrated one
C14_Witness ==
    /\ rec_pc = "returned"
    /\ Len(rec_in.items) = 2
    /\ RecSkips(1) /\ ~RecSkips(2)
    /\ rec_items[1] = rec_in.items[1]
    /\ rec_items[2].saliency # rec_in.items[2].saliency

\* the embedding the interpretation similarity is to be taken against
ClaimedInterpretation(utterance) ==
    IF utterance.kind \in {"Event", "Interpreted"}
    THEN utterance.interpretation_embedding
    ELSE utterance.embedding

\* decay_factor^elapsed for the elapsed turns of the inputs
ClaimedDecay(decay_factor, elapsed) ==
    IF decay_factor = 100 \/ elapsed = 0 THEN 100
    ELSE IF elapsed = 1 THEN decay_factor
    ELSE (decay_factor * decay_factor) \div 100

ClaimedSaliency(item, utterance, decay_factor, b, c) ==
    LET sim_interp ==
            ComputeSimilarity(item.embedding,
                              ClaimedInterpretation(utterance)).value
        sim_text ==
            ComputeSimilarity(item.embedding, utterance.embedding).value
        elapsed ==
            IF utterance.turn_number > item.last_accessed_turn
            THEN utterance.turn_number - item.last_accessed_turn ELSE 0
        top == IF b * sim_interp >= c * sim_text
               THEN b * sim_interp ELSE c * sim_text
    IN  (top * item.weight * ClaimedDecay(decay_factor, elapsed)) \div 1000000

\* an input with the zero vector for an embedding, whose cosine is
\* undefined
ZeroNorm(embedding) == Norm(embedding) = 0

Degenerate(item, utterance) ==
    \/ ZeroNorm(item.embedding)
    \/ ZeroNorm(utterance.embedding)
    \/ ZeroNorm(ClaimedInterpretation(utterance))

\* C15: after recalibrate_all_saliency, every item with
\* utterance.turn_number >= item.last_accessed_turn has the saliency
\* max(b*sim_interp, c*sim_text) * weight * decay, sim_interp taken against
\* the interpretation embedding of the utterance when it has one (batches
\* and utterances of embeddings with a cosine).
C15_SaliencyFormula ==
    (RecCalled /\ \A i \in 1..Len(rec_in.items) :
                     ~Degenerate(rec_in.items[i], rec_in.utterance)) =>
        \A i \in 1..Len(rec_in.items) :
            (~RecSkips(i) /\ rec_in.items[i].has_weight) =>
                /\ ~rec_items[i].saliency_is_nan
                /\ rec_items[i].saliency =
                      ClaimedSaliency(rec_in.items[i], rec_in.utterance,
                                      rec_in.decay_factor, rec_in.b, rec_in.c)

\* C26: when an item that is not skipped, or the utterance, has an embedding
\* of zero norm, recalibrate_all_saliency raises and no saliency of the
\* batch is an undefined value.
C26_DegenerateEmbedding ==
    (/\ RecCalled
     /\ \E i \in 1..Len(rec_in.items) :
           ~RecSkips(i) /\ Degenerate(rec_in.items[i], rec_in.utterance)) =>
        /\ rec_pc = "raised"
        /\ \A i \in 1..Len(rec_items) : ~rec_items[i].saliency_is_nan

(***************************************************************************)
(* Properties of the reservoirs (SpecReservoir).                           *)
(***************************************************************************)
Retrieved == res_last.op = "retrieve_top_k"

\* C16: for every count k, retrieve_top_k returns no more than k items,
\* none below the threshold, in descending saliency with equal saliencies
\* in the order of the reservoir.
C16_TopKBounded ==
    (Retrieved /\ res_last.k >= 0) =>
        /\ Len(res_last.value) <= res_last.k
        /\ \A i \in 1..Len(res_last.value) :
             /\ ~res_last.value[i].saliency_is_nan
             /\ res_last.value[i].saliency >= res_last.threshold
        /\ \A i, j \in 1..Len(res_last.value) :
             i < j =>
                /\ res_last.value[i].saliency >= res_last.value[j].saliency
                /\ res_last.value[i].saliency = res_last.value[j].saliency =>
                      \E p, q \in 1..Len(reservoir) :
                          /\ p < q
                          /\ reservoir[p] = res_last.value[i]
                          /\ reservoir[q] = res_last.value[j]

\* C17: unless the filter is "any", every item retrieve_top_k returns is of
\* the kind the filter names.
C17_KindFilter ==
    (Retrieved /\ res_last.type # "any") =>
        \A i \in 1..Len(res_last.value) :
            res_last.value[i].type = res_last.type

\* C18: a call of retrieve_top_k leaves the reservoir, its order and the
\* fields of its items as they were, and a call that follows one with the
\* same arguments returns the same list.
C18_PureRead ==
    [][ res_last'.op = "retrieve_top_k" =>
          /\ reservoir' = reservoir
          /\ memory_store' = memory_store
          /\ (/\ Retrieved
              /\ res_last'.k = res_last.k
              /\ res_last'.threshold = res_last.threshold
              /\ res_last'.type = res_last.type)
                => res_last'.value = res_last.value
      ]_vars

\* the reservoir is not in saliency order and a retrieval has sorted its
\* result
C18_Witness ==
    /\ Retrieved
    /\ Len(reservoir) = 3
    /\ SaliencyLess(reservoir[1], reservoir[2])
    /\ Len(res_last.value) = 2
    /\ res_last.value[1] = reservoir[2]
    /\ res_last.value[2] = reservoir[1]

\* C19: no two items stored in a reservoir share an id.
C19_UniqueIds ==
    \A i, j \in 1..Len(reservoir) :
        i # j => reservoir[i].id # reservoir[j].id

Others(list, x) == SelectSeq(list, LAMBDA y : y # x)

ThoughtOf(obj) == CHOOSE t \in ThoughtPool : t.obj = obj
MemoryOf(obj) == CHOOSE m \in MemoryPool : m.obj = obj

\* the list of the store a memory of this type is kept in
StoreList(store, memory) ==
    IF memory.type = "long_term"
    THEN store.long_term_memory ELSE store.short_term_memory

\* what remove(x) is to do to a list
RemovesExactly(before, after, x, e) ==
    IF Occurs(before, x)
    THEN /\ e = "none"
         /\ ~Occurs(after, x)
         /\ Others(after, x) = Others(before, x)
    ELSE /\ e # "none"
         /\ after = before

\* C20: after remove(obj) the object is no longer in the reservoir and the
\* other entries are there in their order; when the object is not stored
\* remove raises and leaves the reservoir unchanged.
C20_RemoveExactly ==
    [][ /\ res_last'.op = "remove" =>
            RemovesExactly(reservoir, reservoir', ThoughtOf(res_last'.obj),
                           res_last'.exc)
        /\ res_last'.op = "memory_remove" =>
            LET memory == MemoryOf(res_last'.obj)
            IN  /\ RemovesExactly(StoreList(memory_store, memory),
                                  StoreList(memory_store', memory),
                                  memory, res_last'.exc)
                /\ \/ memory_store'.long_term_memory
                         = memory_store.long_term_memory
                   \/ memory_store'.short_term_memory
                         = memory_store.short_term_memory
      ]_vars

(***************************************************************************)
(* The minds of the agents, the predictor and the list of participants.    *)
(***************************************************************************)
\* every object of before that is still in after was accessed no earlier
Advances(before, after) ==
    \A x \in 1..Len(before), y \in 1..Len(after) :
        before[x].obj = after[y].obj =>
            after[y].last_accessed_turn >= before[x].last_accessed_turn

C22_UniqueParticipantIds ==
    \A i, j \in Indices(participants) :
        i # j => participants[i].id # participants[j].id

\* the operations that run in the task of an agent
TaskOperations ==
    {"think", "generate_system2_thoughts", "recalibrate_all_saliency",
     "retrieve_top_k", "evaluate_thought", "act"}

C24_PredictionRecorded ==
    [][(/\ call'.op = "predict_next_speaker"
        /\ call'.exc = "none"
        /\ event_history # <<>>) =>
          /\ Len(event_history') = Len(event_history)
          /\ event_history'[Len(event_history)].pred_next_turn = call'.text
          /\ \A k \in 1..Len(event_history) :
                /\ event_history'[k].participant_id
                      = event_history[k].participant_id
                /\ event_history'[k].turn_number
                      = event_history[k].turn_number
                /\ k < Len(event_history) =>
                      event_history'[k] = event_history[k]
      ]_vars

C28_ThinkFrame ==
    [][call'.op = "think" =>
          LET i == call'.agent
          IN  IF \/ event_history = <<>>
                 \/ event_history[Len(event_history)].participant_id
                       = participants[i].id
              THEN /\ minds' = minds
                   /\ call'.exc = "none"
              ELSE /\ call'.exc = "none"
                   /\ Len(minds'[i].short_term_memory)
                         = Len(minds[i].short_term_memory) + 1
                   /\ Len(minds'[i].thoughts) >= Len(minds[i].thoughts)
      ]_vars

\* the last m events of the log, in the order of the log
MostRecent(history, m) == SubSeq(history, Len(history) - m + 1, Len(history))

\* C29: get_last_n_events(n), n >= 0, returns the min(n, len) most recent
\* events in the order of the log and leaves the log as it was.
C29_LastEvents ==
    [][(/\ call'.op = "get_last_n_events"
        /\ call'.n >= 0) =>
          /\ call'.events =
                MostRecent(event_history,
                           IF call'.n < Len(event_history)
                           THEN call'.n ELSE Len(event_history))
          /\ event_history' = event_history
      ]_vars

====
